---------------------------- MODULE Spec2Model ----------------------------
(***************************************************************************)
(* Permission resolution of the Azure DevOps extraction scripts:           *)
(*   - the access decision on an (allow, deny) mask pair, as the Node      *)
(*     repository-permissions script and the PowerShell script compute it; *)
(*   - expandGroupMembers, the recursive group expansion;                  *)
(*   - getRepositoryPermissions and the repository loop of the Node        *)
(*     repository-permissions script;                                      *)
(*   - Process-ACLEntries and the repository loop of the PowerShell        *)
(*     script;                                                             *)
(*   - getUsersWithBranchPolicyPermissions, getBranchPolicies, getIdentity *)
(*     and getAllIdentities of main.js;                                    *)
(*   - the start of the entry scripts and their configuration values;      *)
(*   - the permission catalogs and the bit loop over one entry.            *)
(***************************************************************************)
EXTENDS Integers, Sequences, FiniteSets, TLC

VARIABLES
    \* --- the access decision (SpecDecide)
    dPc,        \* "in": inputs chosen, "out": decision taken
    dScript,    \* which script took the decision: "node" or "ps"
    dAllow,     \* allow mask
    dDeny,      \* deny mask
    dBit,       \* catalog bit
    dResult     \* "Deny", "Allow" or "Not Set"

dvars == <<dPc, dScript, dAllow, dDeny, dBit, dResult>>

VARIABLES
    \* --- the identity service
    groupMembers,   \* group id -> the member ids the members endpoint lists
    \* --- one call of expandGroupMembers (SpecExpand)
    xPc,        \* "idle", "running" or "done"
    xRoot,      \* the id of the identity the call was made with
    xStack,     \* the activation records of the recursion, innermost last
    xVisited,   \* the visited set shared by the whole recursion
    xResult,    \* the list the outermost call returned
    xListed     \* group id -> number of getGroupMembers calls made for it

svars == <<groupMembers>>
xvars == <<xPc, xRoot, xStack, xVisited, xResult, xListed>>

VARIABLES
    \* --- one run of a permissions script (Spec, SpecRun)
    script,         \* "node": the Node repository-permissions script,
                    \* "ps": the PowerShell script
    repositories,   \* the repositories the project lists
    repoIdx,        \* position of the repository loop
    pc,             \* position inside the processing of one repository
    permissions,    \* Node: `permissions`; PowerShell: `$results` of the call
    processedIdentities,  \* Node: the keys already emitted for this repository
    repoAcls,       \* the repository-level ACL response of this repository
    projectAcls,    \* the project-level ACL response of this repository
    aclIdx,         \* position of the loop over the ACLs of a response
    aceIdx,         \* position of the loop over the entries of an ACL
    allPermissions, \* the rows collected for the report
    log,            \* what was written to the console as error or warning
    profile,        \* which answers the ACL service may give in this run
    lookups,        \* descriptor -> calls of getIdentity that asked the directory
    expansions,     \* group id -> calls of expandGroupMembers made by a pass
    repoLevelRows   \* how many rows of `permissions` the repository-level pass wrote

cvars == <<lookups, expansions, repoLevelRows>>

evars == <<script, repositories, repoIdx, pc, permissions, processedIdentities,
           repoAcls, projectAcls, aclIdx, aceIdx, allPermissions, log, profile, cvars>>

VARIABLES
    \* --- the start of one entry script (SpecBoot)
    started,      \* which script was started
    envFile,    \* whether the .env file exists
    orgUrl,     \* AZURE_DEVOPS_ORG_URL: "unset", "empty" or "set"
    project,    \* AZURE_DEVOPS_PROJECT
    pat,        \* AZURE_DEVOPS_PAT
    bootPc,     \* "start", "run" (configuration accepted) or "exited"
    exitCode,   \* "running", "0" or "1"
    requests    \* the requests issued to an external service so far

bvars == <<started, envFile, orgUrl, project, pat, bootPc, exitCode, requests>>

VARIABLES
    \* --- one call of getBranchPolicies (SpecPolicies)
    polPc,          \* "call" or "returned"
    polRepositoryId,   \* the repository the call is made for
    polBranchName,     \* the branch the call is made for
    configurations, \* the answer of the policy service to the request
    policies        \* what the call returned

gvars == <<polPc, polRepositoryId, polBranchName, configurations, policies>>

VARIABLES
    \* --- one call of getIdentity (SpecResolve)
    resPc,          \* "call" or "returned"
    resScript,      \* "main": main.js, "repos": the repository-permissions script
    resDescriptor,  \* the descriptor the call is made with
    resServices,    \* how the identity services answer during the call
    resTrace,       \* the strategies tried and the requests issued, in order
    resIdentity     \* what the call returned

rvars == <<resPc, resScript, resDescriptor, resServices, resTrace, resIdentity>>

VARIABLES
    \* --- the bit loop of one script over one entry (SpecCatalog)
    kPc,        \* "in" or "out"
    kScript,    \* "node", "main" or "ps"
    kAllow,     \* the entry's allow mask
    kDeny,      \* the entry's deny mask
    kOrder,     \* the order in which the PowerShell hashtable is enumerated
    kRows       \* the rows the loop wrote, in the order it wrote them

kvars == <<kPc, kScript, kAllow, kDeny, kOrder, kRows>>

VARIABLES
    \* --- the calls of getAllIdentities in one process (SpecIdentities)
    allIdentitiesCache,  \* null, or the list a request answered
    bulkCalls,           \* the calls so far: who called, what came back
    bulkPc               \* "main" before main's call, "run" after it

ivars == <<allIdentitiesCache, bulkCalls, bulkPc>>

ovars == <<bvars, gvars, rvars, kvars, ivars>>

vars == <<dvars, svars, xvars, evars, ovars>>

-----------------------------------------------------------------------------
(* Bitwise and of two non-negative integers (JS `&`, PowerShell `-band`).   *)
RECURSIVE BitAnd(_, _)
BitAnd(a, b) ==
    IF a = 0 \/ b = 0 THEN 0
    ELSE (a % 2) * (b % 2) + 2 * BitAnd(a \div 2, b \div 2)

(* Sequence helpers. *)
RECURSIVE SeqToSet(_)
SeqToSet(s) == IF s = <<>> THEN {} ELSE {Head(s)} \cup SeqToSet(Tail(s))

RECURSIVE Count(_, _)
Count(s, x) ==
    IF s = <<>> THEN 0
    ELSE (IF Head(s) = x THEN 1 ELSE 0) + Count(Tail(s), x)

-----------------------------------------------------------------------------
(* The permission catalogs, in the order the source writes them.            *)

\* part_003: const permissionsBits = {...}: Object.entries yields the string
\* keys in insertion order.
permissionsBits == <<
    <<"Administer", 8192>>,
    <<"Read", 2>>,
    <<"Contribute", 4>>,
    <<"Force push (rewrite history, delete branches and tags)", 8>>,
    <<"Create branch", 16>>,
    <<"Create tag", 32>>,
    <<"Manage notes", 64>>,
    <<"Bypass policies when pushing", 128>>,
    <<"Create repository", 256>>,
    <<"Delete repository", 512>>,
    <<"Rename repository", 1024>>,
    <<"Edit policies", 2048>>,
    <<"Remove others' locks", 4096>>,
    <<"Manage permissions", 8192>>,
    <<"Pull request contribute", 16384>>,
    <<"Bypass policies when completing pull requests", 32768>> >>

\* part_005: $gitPermissions = @{...}: a hashtable from bit to name.
gitPermissions ==
    ( 1 :> "Administer" @@ 2 :> "Read" @@ 4 :> "Contribute"
   @@ 8 :> "Force push (rewrite history, delete branches and tags)"
   @@ 16 :> "Create branch" @@ 32 :> "Create tag" @@ 64 :> "Manage notes"
   @@ 128 :> "Bypass policies when pushing" @@ 256 :> "Create repository"
   @@ 512 :> "Delete repository" @@ 1024 :> "Rename repository"
   @@ 2048 :> "Edit policies" @@ 4096 :> "Remove others' locks"
   @@ 8192 :> "Manage permissions" @@ 16384 :> "Contribute to pull requests"
   @@ 32768 :> "Bypass policies when completing pull requests" )

\* The bit values of either catalog.
CatalogBits ==
    {permissionsBits[i][2] : i \in DOMAIN permissionsBits} \cup DOMAIN gitPermissions

-----------------------------------------------------------------------------
(* The access decision.                                                     *)

\* A plausible slip: allow tested before deny.
InlineDecisionAllowFirst(allowBits, denyBits, bitValue) ==
    IF BitAnd(allowBits, bitValue) # 0 THEN "Allow"
    ELSE IF BitAnd(denyBits, bitValue) # 0 THEN "Deny"
    ELSE "Not Set"

\* part_003 467-475: the inline decision of getRepositoryPermissions; a JS
\* number is truthy when non-zero. "Not Set" is the `continue` branch.
InlineDecision(allowBits, denyBits, bitValue) ==
    IF BitAnd(denyBits, bitValue) # 0 THEN "Deny"
    ELSE IF BitAnd(allowBits, bitValue) # 0 THEN "Allow"
    ELSE "Not Set"

\* A plausible slip: Convert-PermissionMask tests the allow mask first.
ConvertPermissionMaskAllowFirst(allow, deny, bit) ==
    IF BitAnd(allow, bit) = bit THEN "Allow"
    ELSE IF BitAnd(deny, bit) = bit THEN "Deny"
    ELSE "Not Set"

\* part_005 99-115 (and part_001 98-114): Convert-PermissionMask.
ConvertPermissionMask(allow, deny, bit) ==
    IF BitAnd(deny, bit) = bit THEN "Deny"
    ELSE IF BitAnd(allow, bit) = bit THEN "Allow"
    ELSE "Not Set"

\* Masks tried: every combination of the three low bits, and of bits
\* 4096, 8192 and 16384.
MaxMask == 7
MaskScales == {1, 4096}
Masks == {m * s : m \in 0..MaxMask, s \in MaskScales}

DecideStart ==
    /\ dPc = "in"
    /\ dScript = "none"
    /\ dAllow \in Masks
    /\ dDeny \in Masks
    /\ dBit \in CatalogBits
    /\ dResult = "none"

DecideNode ==
    /\ dPc = "in"
    /\ dPc' = "out"
    /\ dScript' = "node"
    /\ dResult' = InlineDecision(dAllow, dDeny, dBit)
    /\ UNCHANGED <<dAllow, dDeny, dBit, svars, xvars, evars, ovars>>

DecidePS ==
    /\ dPc = "in"
    /\ dPc' = "out"
    /\ dScript' = "ps"
    /\ dResult' = ConvertPermissionMask(dAllow, dDeny, dBit)
    /\ UNCHANGED <<dAllow, dDeny, dBit, svars, xvars, evars, ovars>>

\* The decision takes no part in a specification that is not about it.
DecideIdle ==
    /\ dPc = "off"
    /\ dScript = "none"
    /\ dAllow = 0
    /\ dDeny = 0
    /\ dBit = 0
    /\ dResult = "none"

\* C1: for every allow mask, deny mask and catalog bit the decision is Deny
\* iff (deny & bit) = bit, otherwise Allow iff (allow & bit) = bit, otherwise
\* Not Set; a bit set in both masks is denied. Holds of the Node inline
\* decision and of Convert-PermissionMask alike.
C1_DecisionRule ==
    dPc = "out" =>
        /\ (dResult = "Deny") <=> (BitAnd(dDeny, dBit) = dBit)
        /\ (dResult = "Allow") <=>
              (BitAnd(dDeny, dBit) # dBit /\ BitAnd(dAllow, dBit) = dBit)
        /\ (dResult = "Not Set") <=>
              (BitAnd(dDeny, dBit) # dBit /\ BitAnd(dAllow, dBit) # dBit)

\* The Node script has decided a bit that is set in both masks.
C1_Witness ==
    /\ dPc = "out"
    /\ dScript = "node"
    /\ BitAnd(dDeny, dBit) = dBit
    /\ BitAnd(dAllow, dBit) = dBit
    /\ dResult = "Deny"

-----------------------------------------------------------------------------
(* The identity service, as far as group expansion reads it.                *)

NoId == ""          \* a missing id: `identity.id || identity.teamFoundationId`
Null == [isNull |-> TRUE]      \* a failed lookup

GroupIds == {"id-G", "id-H"}
UserIds == {"id-alice", "id-bob"}
\* An id the identities endpoint does not answer for.
GhostId == "id-ghost"
MemberIds == GroupIds \cup UserIds \cup {GhostId, NoId}

\* Identity descriptors as the ACLs and the identities endpoint spell them.
AliceD == "Microsoft.IdentityModel.Claims.ClaimsIdentity;tenant\\alice@example.com"
BobD == "Microsoft.IdentityModel.Claims.ClaimsIdentity;tenant\\bob@example.com"
GroupGD == "Microsoft.TeamFoundation.Identity;S-1-9-1551374245-1-G"
GroupHD == "Microsoft.TeamFoundation.Identity;S-1-9-1551374245-1-H"
\* The project's administrators group.
AdminD == "Microsoft.TeamFoundation.Identity;S-1-9-1551374245-1-A"
\* A claims descriptor that embeds no name.
BareClaimsD == "Microsoft.IdentityModel.Claims.ClaimsIdentity;tenant"
\* A descriptor no lookup resolves (98 characters).
UnknownD ==
    "Microsoft.TeamFoundation.Identity;S-1-9-1551374245-1204400969-2402986413-2179408616-3-4000000000-1"

\* The identities endpoint: what GET _apis/identities/{id} answers.
IdentityTable ==
    ( "id-G"     :> [id |-> "id-G", descriptor |-> GroupGD,
                     displayName |-> "Group G", isContainer |-> TRUE]
   @@ "id-H"     :> [id |-> "id-H", descriptor |-> GroupHD,
                     displayName |-> "Group H", isContainer |-> TRUE]
   @@ "id-A"     :> [id |-> "id-A", descriptor |-> AdminD,
                     displayName |-> "[proj]\\Project Administrators",
                     isContainer |-> TRUE]
   @@ "id-alice" :> [id |-> "id-alice", descriptor |-> AliceD,
                     displayName |-> "Alice", isContainer |-> FALSE]
   @@ "id-bob"   :> [id |-> "id-bob", descriptor |-> BobD,
                     displayName |-> "Bob", isContainer |-> FALSE] )

\* part_003 346-354 (main.js 168-176): null when the request fails.
getIdentityById(identityId) ==
    IF identityId \in DOMAIN IdentityTable THEN IdentityTable[identityId] ELSE Null

\* part_003 328-341 (main.js 109-124): the member list, [] without an id or
\* when the request fails.
getGroupMembers(table, identityId) ==
    IF identityId = NoId \/ identityId \notin DOMAIN table THEN <<>>
    ELSE table[identityId]

\* A plausible slip: every member is taken for a user.
IsContainerNever(memberIdentity) == FALSE

\* part_003 375 (main.js 145): `if (memberIdentity.isContainer)`.
IsContainer(memberIdentity) == memberIdentity.isContainer

\* part_003 381-387: the entry pushed for a user member.
MemberEntry(memberIdentity, memberId) ==
    [descriptor |-> memberIdentity.descriptor,
     displayName |-> memberIdentity.displayName,
     mailAddress |-> "",
     subjectKind |-> "user",
     id |-> memberId]

\* A plausible slip: the visited set is never consulted.
SkipExpansionNoVisited(identityId, visited) == identityId = NoId

\* part_003 361 (main.js 131): `!identityId || visited.has(identityId)`.
SkipExpansion(identityId, visited) ==
    identityId = NoId \/ identityId \in visited

\* Member lists the service may hold: at most MaxMembers distinct ids.
MaxMembers == 2
MemberLists ==
    {s \in UNION {[1..n -> MemberIds] : n \in 0..MaxMembers} :
        \A i, j \in DOMAIN s : i # j => s[i] # s[j]}

\* The recursion may nest one level per group before the visited set stops
\* it; MaxDepth caps the stack above that.
MaxDepth == 4

Frame(identityId) ==
    [id |-> identityId, phase |-> "enter", members |-> <<>>, idx |-> 1,
     allMembers |-> <<>>]

Top == xStack[Len(xStack)]
Below == SubSeq(xStack, 1, Len(xStack) - 1)

\* The stack after the innermost call returned `list` to its caller, which
\* does allMembers.push(...subMembers).
Returned(list) ==
    IF Len(xStack) = 1 THEN <<>>
    ELSE LET caller == xStack[Len(xStack) - 1]
         IN  [Below EXCEPT ![Len(xStack) - 1] =
                 [caller EXCEPT !.allMembers = caller.allMembers \o list]]

ExpandStart ==
    /\ groupMembers \in [GroupIds -> MemberLists]
    /\ xPc = "idle"
    /\ xRoot \in GroupIds \cup {NoId}
    /\ xStack = <<>>
    /\ xVisited = {}
    /\ xResult = <<>>
    /\ xListed = [g \in GroupIds |-> 0]

\* part_003 359: the outermost call, visited = new Set().
XCall ==
    /\ xPc = "idle"
    /\ xPc' = "running"
    /\ xStack' = <<Frame(xRoot)>>
    /\ UNCHANGED <<xRoot, xVisited, xResult, xListed, dvars, svars, evars, ovars>>

\* part_003 360-363: the guard returns [] at once.
XSkip ==
    /\ xPc = "running"
    /\ Top.phase = "enter"
    /\ SkipExpansion(Top.id, xVisited)
    /\ xStack' = Returned(<<>>)
    /\ xPc' = IF Len(xStack) = 1 THEN "done" ELSE "running"
    /\ xResult' = IF Len(xStack) = 1 THEN <<>> ELSE xResult
    /\ UNCHANGED <<xRoot, xVisited, xListed, dvars, svars, evars, ovars>>

\* part_003 364-367: visited.add, then the member list is fetched.
XEnter ==
    /\ xPc = "running"
    /\ Top.phase = "enter"
    /\ ~SkipExpansion(Top.id, xVisited)
    /\ xVisited' = xVisited \cup {Top.id}
    /\ xStack' = [xStack EXCEPT ![Len(xStack)] =
                    [Top EXCEPT !.phase = "loop",
                                !.members = getGroupMembers(groupMembers, Top.id)]]
    /\ xListed' = IF Top.id \in GroupIds
                  THEN [xListed EXCEPT ![Top.id] = @ + 1] ELSE xListed
    /\ UNCHANGED <<xPc, xRoot, xResult, dvars, svars, evars, ovars>>

\* part_003 369-390: one turn of the member loop.
XMember ==
    /\ xPc = "running"
    /\ Top.phase = "loop"
    /\ Top.idx <= Len(Top.members)
    /\ LET memberId == Top.members[Top.idx]
           memberIdentity == getIdentityById(memberId)
           advanced == [Top EXCEPT !.idx = Top.idx + 1]
       IN  IF memberId = NoId \/ memberIdentity = Null
           THEN xStack' = [xStack EXCEPT ![Len(xStack)] = advanced]
           ELSE IF IsContainer(memberIdentity)
           THEN /\ Len(xStack) < MaxDepth
                /\ xStack' = Append([xStack EXCEPT ![Len(xStack)] = advanced],
                                    Frame(memberIdentity.id))
           ELSE xStack' = [xStack EXCEPT ![Len(xStack)] =
                   [advanced EXCEPT !.allMembers =
                       Append(Top.allMembers, MemberEntry(memberIdentity, memberId))]]
    /\ UNCHANGED <<xPc, xRoot, xVisited, xResult, xListed, dvars, svars, evars, ovars>>

\* part_003 392: return allMembers.
XReturn ==
    /\ xPc = "running"
    /\ Top.phase = "loop"
    /\ Top.idx > Len(Top.members)
    /\ xStack' = Returned(Top.allMembers)
    /\ xPc' = IF Len(xStack) = 1 THEN "done" ELSE "running"
    /\ xResult' = IF Len(xStack) = 1 THEN Top.allMembers ELSE xResult
    /\ UNCHANGED <<xRoot, xVisited, xListed, dvars, svars, evars, ovars>>

\* No call of expandGroupMembers is followed step by step.
ExpandIdle ==
    /\ xPc = "off"
    /\ xRoot = NoId
    /\ xStack = <<>>
    /\ xVisited = {}
    /\ xResult = <<>>
    /\ xListed = [g \in GroupIds |-> 0]

-----------------------------------------------------------------------------
(* Identity resolution of the Node repository-permissions script.  Strings  *)
(* are opaque to the checker, so the string tests of the source are tables  *)
(* over the descriptors above.                                              *)

\* `a || b` on strings: the empty (or missing) string is falsy.
Or(a, b) == IF a = "" THEN b ELSE a

\* `descriptor.includes('ClaimsIdentity')`
IncludesClaimsIdentity(descriptor) == descriptor \in {AliceD, BobD, BareClaimsD}

\* `descriptor.split('\\')`
SplitBackslash(descriptor) ==
    IF descriptor = AliceD
    THEN <<"Microsoft.IdentityModel.Claims.ClaimsIdentity;tenant", "alice@example.com">>
    ELSE IF descriptor = BobD
    THEN <<"Microsoft.IdentityModel.Claims.ClaimsIdentity;tenant", "bob@example.com">>
    ELSE <<descriptor>>

\* `descriptor.substring(0, 60)`
Substring60(descriptor) ==
    IF descriptor = UnknownD
    THEN "Microsoft.TeamFoundation.Identity;S-1-9-1551374245-120440096"
    ELSE IF descriptor = AliceD
    THEN "Microsoft.IdentityModel.Claims.ClaimsIdentity;tenant\\alice@e"
    ELSE IF descriptor = BobD
    THEN "Microsoft.IdentityModel.Claims.ClaimsIdentity;tenant\\bob@exa"
    ELSE descriptor

\* The Graph API: graph/descriptors/{descriptor} answers a storage key,
\* graph/storagekeys/{key} the subject; graph/subjects/{descriptor} is the
\* second attempt. A descriptor outside a table is a failed request.
GraphStorageKey == (GroupGD :> "id-G" @@ GroupHD :> "id-H")
GraphSubjectByKey ==
    ( "id-G" :> [displayName |-> "Group G", principalName |-> "[proj]\\Group G",
                 mailAddress |-> "", subjectKind |-> "group"]
   @@ "id-H" :> [displayName |-> "Group H", principalName |-> "[proj]\\Group H",
                 mailAddress |-> "", subjectKind |-> "group"] )
ServiceD == "Microsoft.TeamFoundation.ServiceIdentity;build-service"
GraphSubject ==
    ( ServiceD :> [displayName |-> "Build Service", principalName |-> "build-service",
                   mailAddress |-> "", subjectKind |-> "user",
                   storageKey |-> "id-svc"] )

\* part_003 227-323: getIdentity of the repository-permissions script.
getIdentity(descriptor) ==
    IF IncludesClaimsIdentity(descriptor) /\ Len(SplitBackslash(descriptor)) > 1
    THEN LET email == SplitBackslash(descriptor)[2]
         IN  [descriptor |-> descriptor, displayName |-> email, mailAddress |-> email,
              principalName |-> email, subjectKind |-> "user", isContainer |-> FALSE,
              id |-> descriptor]
    ELSE IF descriptor \in DOMAIN GraphStorageKey
    THEN LET storageKey == GraphStorageKey[descriptor]
             subject == GraphSubjectByKey[storageKey]
         IN  [descriptor |-> descriptor,
              displayName |-> Or(subject.displayName, subject.principalName),
              mailAddress |-> subject.mailAddress,
              principalName |-> Or(subject.principalName, subject.displayName),
              subjectKind |-> subject.subjectKind,
              isContainer |-> (subject.subjectKind = "group"),
              id |-> storageKey]
    ELSE IF descriptor \in DOMAIN GraphSubject
    THEN LET subject == GraphSubject[descriptor]
         IN  [descriptor |-> descriptor,
              displayName |-> Or(subject.displayName, subject.principalName),
              mailAddress |-> subject.mailAddress,
              principalName |-> Or(subject.principalName, subject.displayName),
              subjectKind |-> subject.subjectKind,
              isContainer |-> (subject.subjectKind = "group"),
              id |-> subject.storageKey]
    ELSE Null

\* part_003 359-393 as a function: the list expandGroupMembers returns and
\* the visited set it leaves, for the step-by-step recursion above.
RECURSIVE expandGroupMembers(_, _, _), expandLoop(_, _, _, _, _)
expandGroupMembers(table, identityId, visited) ==
    IF SkipExpansion(identityId, visited)
    THEN [allMembers |-> <<>>, visited |-> visited]
    ELSE expandLoop(table, getGroupMembers(table, identityId), 1,
                    visited \cup {identityId}, <<>>)

expandLoop(table, members, i, visited, allMembers) ==
    IF i > Len(members) THEN [allMembers |-> allMembers, visited |-> visited]
    ELSE LET memberId == members[i]
             memberIdentity == getIdentityById(memberId)
         IN  IF memberId = NoId \/ memberIdentity = Null
             THEN expandLoop(table, members, i + 1, visited, allMembers)
             ELSE IF IsContainer(memberIdentity)
             THEN LET sub == expandGroupMembers(table, memberIdentity.id, visited)
                  IN  expandLoop(table, members, i + 1, sub.visited,
                                 allMembers \o sub.allMembers)
             ELSE expandLoop(table, members, i + 1, visited,
                             Append(allMembers, MemberEntry(memberIdentity, memberId)))

-----------------------------------------------------------------------------
(* getRepositoryPermissions of the Node repository-permissions script.      *)

\* part_003 435: `${descriptor}|${repositoryName}|${permissionName}`; no
\* repository or permission name holds a "|", so the key names the triple.
Key(descriptor, repositoryName, permissionName) ==
    <<descriptor, repositoryName, permissionName>>

\* A plausible slip: the key is never looked up.
addPermissionNoCheck(st, repositoryName, descriptor, identity, permissionName, allowDeny, source, isDirectAssignment) ==
    [permissions |-> Append(st.permissions,
        [repository |-> repositoryName,
         identityType |-> Or(identity.subjectKind, "Unknown"),
         displayName |-> Or(identity.displayName, descriptor),
         mailAddress |-> identity.mailAddress,
         descriptor |-> descriptor,
         permission |-> permissionName,
         allow |-> allowDeny,
         permissionSource |-> source,
         isDirectAssignment |-> IF isDirectAssignment THEN "Yes" ELSE "No"]),
     processedIdentities |-> st.processedIdentities
         \cup {Key(descriptor, repositoryName, permissionName)}]

\* part_003 434-450: addPermission, on the pair (permissions,
\* processedIdentities) it closes over.
addPermission(st, repositoryName, descriptor, identity, permissionName, allowDeny, source, isDirectAssignment) ==
    IF Key(descriptor, repositoryName, permissionName) \in st.processedIdentities
    THEN st
    ELSE [permissions |-> Append(st.permissions,
             [repository |-> repositoryName,
              identityType |-> Or(identity.subjectKind, "Unknown"),
              displayName |-> Or(identity.displayName, descriptor),
              mailAddress |-> identity.mailAddress,
              descriptor |-> descriptor,
              permission |-> permissionName,
              allow |-> allowDeny,
              permissionSource |-> source,
              isDirectAssignment |-> IF isDirectAssignment THEN "Yes" ELSE "No"]),
          processedIdentities |-> st.processedIdentities
              \cup {Key(descriptor, repositoryName, permissionName)}]

\* A plausible slip: the members are written as direct assignments.
RECURSIVE addMembersAsDirect(_, _, _, _, _, _, _)
addMembersAsDirect(st, repositoryName, members, i, permissionName, allowDeny, source) ==
    IF i > Len(members) THEN st
    ELSE addMembersAsDirect(
            addPermission(st, repositoryName, members[i].descriptor, members[i],
                          permissionName, allowDeny, source, TRUE),
            repositoryName, members, i + 1, permissionName, allowDeny, source)

\* A plausible slip: the members are written as allowed, whatever the
\* group's decision.
RECURSIVE addMembersAlwaysAllow(_, _, _, _, _, _, _)
addMembersAlwaysAllow(st, repositoryName, members, i, permissionName, allowDeny, source) ==
    IF i > Len(members) THEN st
    ELSE addMembersAlwaysAllow(
            addPermission(st, repositoryName, members[i].descriptor, members[i],
                          permissionName, "Allow", source, FALSE),
            repositoryName, members, i + 1, permissionName, allowDeny, source)

\* part_003 497-506 (571-580): the loop over the expanded members.
RECURSIVE addMembers(_, _, _, _, _, _, _)
addMembers(st, repositoryName, members, i, permissionName, allowDeny, source) ==
    IF i > Len(members) THEN st
    ELSE addMembers(
            addPermission(st, repositoryName, members[i].descriptor, members[i],
                          permissionName, allowDeny, source, FALSE),
            repositoryName, members, i + 1, permissionName, allowDeny, source)

\* A plausible slip: the repository-level pass leaves isDirectAssignment at
\* its default.
RepositoryLevelNotDirect ==
    [group |-> "Direct Group Assignment", memberSuffix |-> "",
     user |-> "Direct User Assignment",
     unresolved |-> "Direct Assignment (unresolved)", direct |-> FALSE]

\* A plausible slip: the project-level pass marks its own rows as direct.
ProjectLevelDirect ==
    [group |-> "Project-level Group Assignment (inherited)",
     memberSuffix |-> " (inherited)",
     user |-> "Project-level User Assignment (inherited)",
     unresolved |-> "Project-level (unresolved, inherited)", direct |-> TRUE]

\* What the two passes of getRepositoryPermissions write differently.
\* part_003 489, 503, 510, 520: the repository-level pass.
RepositoryLevel ==
    [group |-> "Direct Group Assignment", memberSuffix |-> "",
     user |-> "Direct User Assignment",
     unresolved |-> "Direct Assignment (unresolved)", direct |-> TRUE]
\* part_003 563, 577, 584, 594: the project-level pass.
ProjectLevel ==
    [group |-> "Project-level Group Assignment (inherited)",
     memberSuffix |-> " (inherited)",
     user |-> "Project-level User Assignment (inherited)",
     unresolved |-> "Project-level (unresolved, inherited)", direct |-> FALSE]

\* part_003 477-521 (551-595): one permission of one entry, once its
\* decision is Allow or Deny.
processPermission(st, table, repositoryName, descriptor, permissionName, allowDeny, level) ==
    LET identity == getIdentity(descriptor)
    IN  IF identity # Null
        THEN LET displayName ==
                    Or(identity.displayName, Or(identity.principalName, descriptor))
                 normalizedIdentity ==
                    [descriptor |-> Or(identity.descriptor, descriptor),
                     displayName |-> displayName,
                     mailAddress |-> identity.mailAddress,
                     subjectKind |-> Or(identity.subjectKind,
                         IF identity.isContainer THEN "group" ELSE "user")]
             IN  IF identity.isContainer \/ identity.subjectKind = "group"
                 THEN LET withGroup ==
                            addPermission(st, repositoryName, descriptor,
                                normalizedIdentity, permissionName, allowDeny,
                                level.group, level.direct)
                          identityForExpansion == getIdentityById(identity.id)
                      IN  IF identityForExpansion # Null
                          THEN addMembers(withGroup, repositoryName,
                                   expandGroupMembers(table, identityForExpansion.id,
                                                      {}).allMembers,
                                   1, permissionName, allowDeny,
                                   "Member of " \o displayName \o level.memberSuffix)
                          ELSE withGroup
                 ELSE addPermission(st, repositoryName, descriptor,
                          normalizedIdentity, permissionName, allowDeny,
                          level.user, level.direct)
        ELSE LET unresolvedIdentity ==
                    [descriptor |-> descriptor,
                     displayName |-> "[Unresolved: " \o Substring60(descriptor) \o "...]",
                     mailAddress |-> "",
                     subjectKind |-> "unknown"]
             IN  addPermission(st, repositoryName, descriptor, unresolvedIdentity,
                     permissionName, allowDeny, level.unresolved, level.direct)

\* part_003 466-522 (540-596): the loop over permissionsBits for one entry.
RECURSIVE processEntry(_, _, _, _, _, _, _, _)
processEntry(st, table, repositoryName, descriptor, allowBits, denyBits, level, k) ==
    IF k > Len(permissionsBits) THEN st
    ELSE LET permissionName == permissionsBits[k][1]
             bitValue == permissionsBits[k][2]
             allowDeny == InlineDecision(allowBits, denyBits, bitValue)
         IN  processEntry(
                 IF allowDeny = "Not Set" THEN st
                 ELSE processPermission(st, table, repositoryName, descriptor,
                                        permissionName, allowDeny, level),
                 table, repositoryName, descriptor, allowBits, denyBits, level, k + 1)

-----------------------------------------------------------------------------
(* getIdentity, strategy by strategy: what is tried, which requests are     *)
(* issued, and what is returned, under every way the services may answer.   *)

\* `descriptor.includes('TeamFoundation.Identity') ||
\*  descriptor.includes('TeamFoundation.ServiceIdentity')`
IncludesTeamFoundation(descriptor) ==
    descriptor \in {GroupGD, GroupHD, UnknownD, ServiceD, AdminD}

\* The descriptors a call may be made with.
Descriptors == {AliceD, BobD, BareClaimsD, GroupGD, UnknownD, ServiceD}

\* The steps of a call. The requests are those that leave the process.
Requests ==
    {"GET identities", "GET identities?descriptors", "GET graph/descriptors",
     "GET graph/storagekeys", "GET graph/subjects"}

\* How the services answer during one call.
\*   bulk:     getAllIdentities is served from allIdentitiesCache, with or
\*             without a match for the descriptor, or the cache is empty and
\*             the list is requested: with a match, without, or failing;
\*   query:    identities?descriptors= answers an identity, none, or fails;
\*   graph:    graph/descriptors and graph/storagekeys answer, the first
\*             answers without a value, the first fails, or the second fails;
\*   subjects: graph/subjects answers or fails.
Services ==
    [bulk : {"cached match", "cached no match", "match", "no match", "fail"},
     query : {"found", "empty", "fail"},
     graph : {"found", "empty", "fail", "key fail"},
     subjects : {"found", "fail"}]

\* The record the identities service holds for a descriptor.
DirectoryIdentity(descriptor) ==
    IF \E i \in DOMAIN IdentityTable : IdentityTable[i].descriptor = descriptor
    THEN IdentityTable[CHOOSE i \in DOMAIN IdentityTable : IdentityTable[i].descriptor = descriptor]
    ELSE IF descriptor = ServiceD
    THEN [id |-> "id-svc", descriptor |-> descriptor, displayName |-> "Build Service",
          isContainer |-> FALSE]
    ELSE [id |-> NoId, descriptor |-> descriptor, displayName |-> "Someone",
          isContainer |-> FALSE]

\* The storage key and the subject the Graph API holds for a descriptor.
DirectoryStorageKey(descriptor) ==
    IF descriptor \in DOMAIN GraphStorageKey THEN GraphStorageKey[descriptor]
    ELSE IF descriptor \in DOMAIN GraphSubject THEN GraphSubject[descriptor].storageKey
    ELSE "id-x"
DirectorySubject(descriptor) ==
    IF descriptor \in DOMAIN GraphStorageKey THEN GraphSubjectByKey[GraphStorageKey[descriptor]]
    ELSE IF descriptor \in DOMAIN GraphSubject
    THEN [f \in {"displayName", "principalName", "mailAddress", "subjectKind"} |->
            GraphSubject[descriptor][f]]
    ELSE [displayName |-> "Someone", principalName |-> "someone", mailAddress |-> "",
          subjectKind |-> "user"]

\* main.js 212-221 (part_003 239-248): the identity built from the name a
\* claims descriptor embeds.
ParsedIdentity(descriptor) ==
    LET email == SplitBackslash(descriptor)[2]
    IN  [descriptor |-> descriptor, displayName |-> email, mailAddress |-> email,
         principalName |-> email, subjectKind |-> "user", isContainer |-> FALSE,
         id |-> descriptor]

\* main.js 265-276 (part_003 309-320): the identity the catch block builds.
CaughtIdentity(descriptor) ==
    IF Len(SplitBackslash(descriptor)) > 1
    THEN LET parts == SplitBackslash(descriptor)
             displayName == parts[Len(parts)]
         IN  [descriptor |-> descriptor, displayName |-> displayName,
              mailAddress |-> displayName, principalName |-> displayName,
              subjectKind |-> "user", isContainer |-> FALSE]
    ELSE Null

\* main.js 229-239, 251-261: the normalized identity. The records of the
\* service carry displayName only, so the `||` chains end there.
Normalized(identity) ==
    [descriptor |-> identity.descriptor, displayName |-> identity.displayName,
     mailAddress |-> "", principalName |-> identity.displayName,
     subjectKind |-> IF identity.isContainer THEN "group" ELSE "user",
     isContainer |-> identity.isContainer, id |-> identity.id]

\* part_003 266-274, 291-299: the identity built from a Graph subject.
FromSubject(descriptor, subject, storageKey) ==
    [descriptor |-> descriptor,
     displayName |-> Or(subject.displayName, subject.principalName),
     mailAddress |-> subject.mailAddress,
     principalName |-> Or(subject.principalName, subject.displayName),
     subjectKind |-> subject.subjectKind,
     isContainer |-> (subject.subjectKind = "group"),
     id |-> storageKey]

\* main.js 181-195: getAllIdentities consulted; the list is requested only
\* when allIdentitiesCache is not set.
BulkSteps(s) ==
    IF s.bulk \in {"cached match", "cached no match"} THEN <<"bulk">>
    ELSE <<"bulk", "GET identities">>

\* main.js 245-262 and the catch block: the query by descriptor.
QueryMain(descriptor, s, steps) ==
    LET trace == steps \o <<"GET identities?descriptors">>
    IN  CASE s.query = "found" ->
                [identity |-> Normalized(DirectoryIdentity(descriptor)), trace |-> trace]
          [] s.query = "empty" -> [identity |-> Null, trace |-> trace]
          [] s.query = "fail" -> [identity |-> CaughtIdentity(descriptor), trace |-> trace]

\* A plausible slip: the embedded name is not used, the directory is asked.
ResolveMainNoParse(descriptor, s) ==
    QueryMain(descriptor, s, <<"parse">>)

\* main.js 200-280: getIdentity of main.js.
ResolveMain(descriptor, s) ==
    IF IncludesClaimsIdentity(descriptor) /\ Len(SplitBackslash(descriptor)) > 1
    THEN [identity |-> ParsedIdentity(descriptor), trace |-> <<"parse">>]
    ELSE IF IncludesTeamFoundation(descriptor)
    THEN IF s.bulk \in {"cached match", "match"}
         THEN [identity |-> Normalized(DirectoryIdentity(descriptor)),
               trace |-> <<"parse">> \o BulkSteps(s)]
         ELSE QueryMain(descriptor, s, <<"parse">> \o BulkSteps(s))
    ELSE QueryMain(descriptor, s, <<"parse">>)

\* part_003 283-305: graph/subjects, the second attempt.
SubjectsRepos(descriptor, s, steps) ==
    LET trace == steps \o <<"GET graph/subjects">>
    IN  IF s.subjects = "found"
        THEN [identity |-> FromSubject(descriptor, DirectorySubject(descriptor),
                                       DirectoryStorageKey(descriptor)),
              trace |-> trace]
        ELSE [identity |-> Null, trace |-> trace]

\* part_003 227-323: getIdentity of the repository-permissions script.
ResolveRepos(descriptor, s) ==
    IF IncludesClaimsIdentity(descriptor) /\ Len(SplitBackslash(descriptor)) > 1
    THEN [identity |-> ParsedIdentity(descriptor), trace |-> <<"parse">>]
    ELSE CASE s.graph = "found" ->
                [identity |-> FromSubject(descriptor, DirectorySubject(descriptor),
                                          DirectoryStorageKey(descriptor)),
                 trace |-> <<"parse", "GET graph/descriptors", "GET graph/storagekeys">>]
           [] s.graph \in {"empty", "fail"} ->
                SubjectsRepos(descriptor, s, <<"parse", "GET graph/descriptors">>)
           [] s.graph = "key fail" ->
                SubjectsRepos(descriptor, s,
                              <<"parse", "GET graph/descriptors", "GET graph/storagekeys">>)

ResolveIdle ==
    /\ resPc = "off"
    /\ resScript = "off"
    /\ resDescriptor = ""
    /\ resServices = [bulk |-> "fail", query |-> "fail", graph |-> "fail", subjects |-> "fail"]
    /\ resTrace = <<>>
    /\ resIdentity = Null

ResolveStart ==
    /\ resPc = "call"
    /\ resScript \in {"main", "repos"}
    /\ resDescriptor \in Descriptors
    /\ resServices \in Services
    /\ resTrace = <<>>
    /\ resIdentity = Null

\* One call of getIdentity of main.js.
RMain ==
    /\ resPc = "call"
    /\ resScript = "main"
    /\ LET r == ResolveMain(resDescriptor, resServices)
       IN  resIdentity' = r.identity /\ resTrace' = r.trace
    /\ resPc' = "returned"
    /\ UNCHANGED <<resScript, resDescriptor, resServices>>
    /\ UNCHANGED <<dvars, svars, xvars, evars, bvars, gvars, kvars, ivars>>

\* One call of getIdentity of the repository-permissions script.
RRepos ==
    /\ resPc = "call"
    /\ resScript = "repos"
    /\ LET r == ResolveRepos(resDescriptor, resServices)
       IN  resIdentity' = r.identity /\ resTrace' = r.trace
    /\ resPc' = "returned"
    /\ UNCHANGED <<resScript, resDescriptor, resServices>>
    /\ UNCHANGED <<dvars, svars, xvars, evars, bvars, gvars, kvars, ivars>>

\* The services answering as the Graph tables of the runs do.
TableServices(descriptor) ==
    [bulk |-> "fail", query |-> "fail",
     graph |-> IF descriptor \in DOMAIN GraphStorageKey THEN "found" ELSE "fail",
     subjects |-> IF descriptor \in DOMAIN GraphSubject THEN "found" ELSE "fail"]

\* The descriptors and the groups the counters of a run are kept for.
CountedDescriptors == Descriptors \cup {GroupHD, AdminD}
CountedGroups == GroupIds \cup {"id-A"}
NoCalls ==
    [lookups |-> [d \in CountedDescriptors |-> 0], expansions |-> [g \in CountedGroups |-> 0]]

\* part_003 469-478: the permissions of the catalog for which the loop body
\* runs, that is, the number of calls of getIdentity one entry causes.
RECURSIVE SetBits(_, _, _)
SetBits(allowBits, denyBits, k) ==
    IF k > Len(permissionsBits) THEN 0
    ELSE (IF InlineDecision(allowBits, denyBits, permissionsBits[k][2]) = "Not Set" THEN 0 ELSE 1)
         + SetBits(allowBits, denyBits, k + 1)

\* Whether a returned call has asked the directory.
AskedDirectory(r) == \E i \in 1..Len(r.trace) : r.trace[i] \in Requests

\* part_003 478, 493-495 (main.js 388, 405-407): the calls n runs of the loop
\* body make for one descriptor, r being what getIdentity does for it:
\* getIdentity each time, and expandGroupMembers each time the identity is a
\* group that getIdentityById finds.
CallsAfter(calls, descriptor, r, n) ==
    LET identity == r.identity
        expanded == /\ identity # Null
                    /\ identity.isContainer \/ identity.subjectKind = "group"
                    /\ getIdentityById(identity.id) # Null
    IN  [lookups |-> IF AskedDirectory(r)
                     THEN [calls.lookups EXCEPT ![descriptor] = @ + n]
                     ELSE calls.lookups,
         expansions |-> IF expanded
                        THEN [calls.expansions EXCEPT ![identity.id] = @ + n]
                        ELSE calls.expansions]

-----------------------------------------------------------------------------
(* The answers of the ACL service.                                          *)

\* (allow, deny) pairs an entry may carry: Read and Contribute allowed;
\* Read set in both masks and Contribute denied.
MaskPairs == {<<6, 0>>, <<2, 6>>}
\* For main.js: Contribute allowed; Contribute and Edit policies allowed and
\* Contribute denied.
MainMaskPairs == {<<4, 0>>, <<2052, 4>>}

\* An entry of an acesDictionary: <<descriptor, ace>>. An ace that is null
\* makes `ace.allow` throw in the Node scripts. The wide range also holds an
\* entry with bit 8192, which the Node catalog names twice.
EntriesOf(p) ==
    IF p = "main"
    THEN {<<d, [allow |-> m[1], deny |-> m[2]]>> :
              d \in {AliceD, GroupGD, UnknownD, AdminD}, m \in MainMaskPairs}
    ELSE IF p = "wide"
    THEN {<<d, [allow |-> m[1], deny |-> m[2]]>> :
              d \in {AliceD, GroupGD, GroupHD, UnknownD}, m \in MaskPairs}
         \cup {<<AliceD, [allow |-> 8192, deny |-> 0]>>}
    ELSE {<<AliceD, [allow |-> 6, deny |-> 0]>>,
          <<GroupHD, [allow |-> 2, deny |-> 6]>>,
          <<UnknownD, Null>>}

MaxAces == 2    \* entries in one response of the wide range
MaxAcls == 2    \* ACLs in one response

\* The dictionaries of 1 to n entries: the keys of a dictionary differ.
DictionariesOf(p, n) ==
    {s \in UNION {[1..k -> EntriesOf(p)] : k \in 1..n} :
        \A i, j \in DOMAIN s : i # j => s[i][1] # s[j][1]}

EntryCount(acl) ==
    IF "acesDictionary" \in DOMAIN acl THEN Len(acl.acesDictionary) ELSE 0

RECURSIVE TotalEntries(_)
TotalEntries(acls) ==
    IF acls = <<>> THEN 0 ELSE EntryCount(Head(acls)) + TotalEntries(Tail(acls))

\* `response.data.value` of a request that succeeded: up to MaxAcls ACLs
\* with n entries in all; an ACL with an empty dictionary; and an ACL
\* without acesDictionary, alone or before an ACL of one entry.
ResponsesOf(p) ==
    LET n == IF p = "narrow" THEN MaxAces - 1 ELSE MaxAces
        filled == {[acesDictionary |-> d] : d \in DictionariesOf(p, n)}
        single == {[acesDictionary |-> d] : d \in DictionariesOf(p, 1)}
    IN  {r \in UNION {[1..k -> filled] : k \in 0..MaxAcls} : TotalEntries(r) <= n}
        \cup {<<[acesDictionary |-> <<>>]>>, <<[token |-> "t"]>>}
        \cup {<<[token |-> "t"], a>> : a \in single}

WideResponses == ResponsesOf("wide")
NarrowResponses == ResponsesOf("narrow")
MainResponses == ResponsesOf("main")
Responses ==
    IF profile = "wide" THEN WideResponses
    ELSE IF profile = "main" THEN MainResponses
    ELSE NarrowResponses

\* The position of the first entry at or after entry j of ACL i; ACLs
\* without a dictionary (`if (acl.acesDictionary)`) and exhausted ones are
\* passed over. <<Len(acls) + 1, 1>> when no entry is left.
RECURSIVE NextEntry(_, _, _)
NextEntry(acls, i, j) ==
    IF i > Len(acls) THEN <<Len(acls) + 1, 1>>
    ELSE IF j <= EntryCount(acls[i]) THEN <<i, j>>
    ELSE NextEntry(acls, i + 1, 1)

\* No script runs.
EngineIdle ==
    /\ script = "off"
    /\ repositories = <<>>
    /\ repoIdx = 0
    /\ pc = "off"
    /\ permissions = <<>>
    /\ processedIdentities = {}
    /\ repoAcls = <<>>
    /\ projectAcls = <<>>
    /\ aclIdx = 0
    /\ aceIdx = 0
    /\ allPermissions = <<>>
    /\ log = {}
    /\ profile = "off"
    /\ lookups = NoCalls.lookups
    /\ expansions = NoCalls.expansions
    /\ repoLevelRows = 0

-----------------------------------------------------------------------------
(* The Node repository-permissions script: main and the steps of            *)
(* getRepositoryPermissions.                                                *)

repo == repositories[repoIdx]

\* part_003 601-603: the catch of getRepositoryPermissions logs the error.
Caught == log \cup {<<"error", repo.name>>}

\* part_003 629-633, 398-411: the loop takes the next repository and
\* getRepositoryPermissions starts: fresh permissions and processedIdentities,
\* then the Git Repositories namespace is looked up. The namespace list may
\* hold it, lack it (also when the request failed and [] came back), or the
\* answer may have no `value`, and then `namespaces.find` throws.
NBegin ==
    /\ script = "node"
    /\ pc = "loop"
    /\ repoIdx <= Len(repositories)
    /\ permissions' = <<>>
    /\ processedIdentities' = {}
    /\ repoAcls' = <<>>
    /\ projectAcls' = <<>>
    /\ aclIdx' = 1
    /\ aceIdx' = 1
    /\ repoLevelRows' = 0
    /\ \E namespaces \in {"found", "missing", "no value"} :
          /\ pc' = IF namespaces = "found" THEN "repoFetch" ELSE "return"
          /\ log' = IF namespaces = "found" THEN log
                    ELSE IF namespaces = "missing"
                    THEN log \cup {<<"warn", repo.name>>}
                    ELSE Caught
    /\ UNCHANGED <<script, repositories, repoIdx, allPermissions, profile,
                   dvars, svars, xvars, ovars, lookups, expansions>>

\* A plausible slip: the catch of getACLs logs and throws again.
getACLsRethrows ==
    {[value |-> r, logged |-> FALSE, thrown |-> FALSE] : r \in Responses}
    \cup {[value |-> <<>>, logged |-> TRUE, thrown |-> TRUE],
          [value |-> <<>>, logged |-> FALSE, thrown |-> TRUE]}

\* part_003 213-222: getACLs, as the outcomes a call may have. The request
\* succeeds and `response.data.value` is returned; or it fails, the catch
\* logs and [] is returned; or the answer has no `value`, undefined is
\* returned and the caller throws on it (`repoAcls.length`, `for ... of`).
getACLs ==
    {[value |-> r, logged |-> FALSE, thrown |-> FALSE] : r \in Responses}
    \cup {[value |-> <<>>, logged |-> TRUE, thrown |-> FALSE],
          [value |-> <<>>, logged |-> FALSE, thrown |-> TRUE]}

\* What the console holds after a call of getACLs for `token`.
LogAfter(a, token) ==
    (IF a.logged THEN log \cup {<<"acl error", repo.name, token>>} ELSE log)
    \cup (IF a.thrown THEN {<<"error", repo.name>>} ELSE {})

\* part_003 452-456: the repository-level ACLs are fetched.
NFetchRepo ==
    /\ script = "node"
    /\ pc = "repoFetch"
    /\ \E a \in getACLs :
          /\ repoAcls' = a.value
          /\ aclIdx' = NextEntry(a.value, 1, 1)[1]
          /\ aceIdx' = NextEntry(a.value, 1, 1)[2]
          /\ pc' = IF a.thrown THEN "return" ELSE "repoPass"
          /\ log' = LogAfter(a, "repository")
    /\ UNCHANGED <<script, repositories, repoIdx, permissions, processedIdentities,
                   projectAcls, allPermissions, profile, dvars, svars, xvars, ovars, cvars>>

\* One entry of a pass (part_003 461-523, 535-597): a null ace throws at
\* `ace.allow` and the catch ends the repository.
EntryStep(acls, level) ==
    LET entry == acls[aclIdx].acesDictionary[aceIdx]
        descriptor == entry[1]
        ace == entry[2]
    IN  IF ace = Null
        THEN /\ pc' = "return"
             /\ log' = Caught
             /\ UNCHANGED <<permissions, processedIdentities, aclIdx, aceIdx,
                            lookups, expansions>>
        ELSE LET st == processEntry(
                           [permissions |-> permissions,
                            processedIdentities |-> processedIdentities],
                           groupMembers, repo.name, descriptor, ace.allow, ace.deny,
                           level, 1)
                 next == NextEntry(acls, aclIdx, aceIdx + 1)
                 calls == CallsAfter([lookups |-> lookups, expansions |-> expansions],
                                     descriptor,
                                     ResolveRepos(descriptor, TableServices(descriptor)),
                                     SetBits(ace.allow, ace.deny, 1))
             IN  /\ permissions' = st.permissions
                 /\ processedIdentities' = st.processedIdentities
                 /\ lookups' = calls.lookups
                 /\ expansions' = calls.expansions
                 /\ aclIdx' = next[1]
                 /\ aceIdx' = next[2]
                 /\ UNCHANGED <<pc, log>>

\* part_003 459-525: the repository-level pass, one entry at a time.
NRepoEntry ==
    /\ script = "node"
    /\ pc = "repoPass"
    /\ aclIdx <= Len(repoAcls)
    /\ EntryStep(repoAcls, RepositoryLevel)
    /\ repoLevelRows' = Len(permissions')
    /\ UNCHANGED <<script, repositories, repoIdx, repoAcls, projectAcls,
                   allPermissions, profile, dvars, svars, xvars, ovars>>

\* part_003 527-531: the project-level ACLs, fetched when the first pass is
\* through.
NFetchProject ==
    /\ script = "node"
    /\ pc = "repoPass"
    /\ aclIdx > Len(repoAcls)
    /\ \E a \in getACLs :
          /\ projectAcls' = a.value
          /\ aclIdx' = NextEntry(a.value, 1, 1)[1]
          /\ aceIdx' = NextEntry(a.value, 1, 1)[2]
          /\ pc' = IF a.thrown THEN "return" ELSE "projectPass"
          /\ log' = LogAfter(a, "project")
    /\ UNCHANGED <<script, repositories, repoIdx, permissions, processedIdentities,
                   repoAcls, allPermissions, profile, dvars, svars, xvars, ovars, cvars>>

\* part_003 533-599: the project-level pass, one entry at a time.
NProjectEntry ==
    /\ script = "node"
    /\ pc = "projectPass"
    /\ aclIdx <= Len(projectAcls)
    /\ EntryStep(projectAcls, ProjectLevel)
    /\ UNCHANGED <<script, repositories, repoIdx, repoAcls, projectAcls,
                   allPermissions, profile, dvars, svars, xvars, ovars, repoLevelRows>>

\* A plausible slip: after the catch an empty list is returned.
NReturnDropsOnError ==
    /\ script = "node"
    /\ \/ pc = "return"
       \/ pc = "projectPass" /\ aclIdx > Len(projectAcls)
    /\ allPermissions' = IF pc = "return" THEN allPermissions
                         ELSE allPermissions \o permissions
    /\ repoIdx' = repoIdx + 1
    /\ pc' = "loop"
    /\ UNCHANGED <<script, repositories, permissions, processedIdentities, repoAcls,
                   projectAcls, aclIdx, aceIdx, log, profile, dvars, svars, xvars, ovars, cvars>>

\* part_003 605, 633-635: getRepositoryPermissions returns `permissions`, at
\* the end of the second pass or after the catch, and main appends them.
NReturn ==
    /\ script = "node"
    /\ \/ pc = "return"
       \/ pc = "projectPass" /\ aclIdx > Len(projectAcls)
    /\ allPermissions' = allPermissions \o permissions
    /\ repoIdx' = repoIdx + 1
    /\ pc' = "loop"
    /\ UNCHANGED <<script, repositories, permissions, processedIdentities, repoAcls,
                   projectAcls, aclIdx, aceIdx, log, profile, dvars, svars, xvars, ovars, cvars>>

\* part_003 641-661: after the last repository the rows are written.
NWrite ==
    /\ script = "node"
    /\ pc = "loop"
    /\ repoIdx > Len(repositories)
    /\ pc' = "written"
    /\ UNCHANGED <<script, repositories, repoIdx, permissions, processedIdentities,
                   repoAcls, projectAcls, aclIdx, aceIdx, allPermissions, log,
                   profile, dvars, svars, xvars, ovars, cvars>>

NodeNext == NBegin \/ NFetchRepo \/ NRepoEntry \/ NFetchProject \/ NProjectEntry
            \/ NReturn \/ NWrite

-----------------------------------------------------------------------------
(* The PowerShell script: Process-ACLEntries and the repository loop.       *)

\* part_005 139-203: $identityLookup, built before the loop from the groups
\* and users the CLI lists; a descriptor the CLI did not list has no entry.
identityLookup ==
    ( AliceD  :> [DisplayName |-> "Alice", Type |-> "User"]
   @@ BobD    :> [DisplayName |-> "Bob", Type |-> "User"]
   @@ GroupGD :> [DisplayName |-> "Group G", Type |-> "Group"]
   @@ GroupHD :> [DisplayName |-> "Group H", Type |-> "Group"] )

\* part_005 256: $gitPermissions.GetEnumerator(), taken in ascending bit order.
gitPermissionsEnumerator ==
    <<1, 2, 4, 8, 16, 32, 64, 128, 256, 512, 1024, 2048, 4096, 8192, 16384, 32768>>

\* part_005 256-275: the loop over the permission bits of one entry, in the
\* order GetEnumerator() lists the hashtable.
RECURSIVE psBitsIn(_, _, _, _, _, _, _, _, _)
psBitsIn(order, results, repository, repositoryId, descriptor, displayName, allow, deny, k) ==
    IF k > Len(order) THEN results
    ELSE LET bit == order[k]
             access == ConvertPermissionMask(allow, deny, bit)
         IN  psBitsIn(order,
                 IF access # "Not Set"
                 THEN Append(results,
                        [Repository |-> repository,
                         RepositoryId |-> repositoryId,
                         IdentityDescriptor |-> descriptor,
                         IdentityDisplayName |-> displayName,
                         IdentityType |-> identityLookup[descriptor].Type,
                         Permission |-> gitPermissions[bit],
                         Access |-> access,
                         AllowMask |-> allow,
                         DenyMask |-> deny])
                 ELSE results,
                 repository, repositoryId, descriptor, displayName, allow, deny, k + 1)

\* The loop as the runs of the script go through it.
psBits(results, repository, repositoryId, descriptor, displayName, allow, deny, k) ==
    psBitsIn(gitPermissionsEnumerator, results, repository, repositoryId, descriptor,
             displayName, allow, deny, k)

\* part_005 234-277: one entry of Process-ACLEntries. `[int]$ace.allow` of a
\* null ace is 0.
psEntry(results, repository, repositoryId, entry, isInherited) ==
    LET descriptor == entry[1]
        ace == entry[2]
        allow == IF ace = Null THEN 0 ELSE ace.allow
        deny == IF ace = Null THEN 0 ELSE ace.deny
    IN  IF descriptor \notin DOMAIN identityLookup THEN results
        ELSE IF allow > 0 \/ deny > 0
        THEN psBits(results, repository, repositoryId, descriptor,
                    IF isInherited
                    THEN identityLookup[descriptor].DisplayName \o " (Inherited)"
                    ELSE identityLookup[descriptor].DisplayName,
                    allow, deny, 1)
        ELSE results

\* A plausible slip: the test for an existing row leaves the repository out.
RECURSIVE psMergeAnyRepository(_, _)
psMergeAnyRepository(all, projectPermissions) ==
    IF projectPermissions = <<>> THEN all
    ELSE LET projPerm == Head(projectPermissions)
             exists == \E i \in DOMAIN all :
                          /\ all[i].IdentityDescriptor = projPerm.IdentityDescriptor
                          /\ all[i].Permission = projPerm.Permission
         IN  psMergeAnyRepository(IF exists THEN all ELSE Append(all, projPerm),
                                  Tail(projectPermissions))

\* part_005 324-335: the project-level rows are added unless a row of the
\* same repository, descriptor and permission is in $allPermissions.
RECURSIVE psMerge(_, _)
psMerge(all, projectPermissions) ==
    IF projectPermissions = <<>> THEN all
    ELSE LET projPerm == Head(projectPermissions)
             exists == \E i \in DOMAIN all :
                          /\ all[i].Repository = projPerm.Repository
                          /\ all[i].IdentityDescriptor = projPerm.IdentityDescriptor
                          /\ all[i].Permission = projPerm.Permission
         IN  psMerge(IF exists THEN all ELSE Append(all, projPerm),
                     Tail(projectPermissions))

\* part_005 215-229, 282-286: the request of Process-ACLEntries. The answer
\* is gone through; or the request fails, the catch warns and the call
\* returns no row.
PSFetch(token) ==
    \E a \in {[value |-> r, warned |-> FALSE] : r \in Responses}
             \cup {[value |-> <<>>, warned |-> TRUE]} :
        /\ aclIdx' = NextEntry(a.value, 1, 1)[1]
        /\ aceIdx' = NextEntry(a.value, 1, 1)[2]
        /\ log' = IF a.warned THEN log \cup {<<"acl error", repo.name, token>>}
                  ELSE log
        /\ IF token = "repository"
           THEN repoAcls' = a.value /\ projectAcls' = <<>>
           ELSE projectAcls' = a.value /\ UNCHANGED repoAcls

\* part_005 290-304: the loop takes the next repository and calls
\* Process-ACLEntries for the repository token.
PFetchRepo ==
    /\ script = "ps"
    /\ pc = "loop"
    /\ repoIdx <= Len(repositories)
    /\ permissions' = <<>>
    /\ PSFetch("repository")
    /\ pc' = "repoPass"
    /\ UNCHANGED <<script, repositories, repoIdx, processedIdentities,
                   allPermissions, profile, dvars, svars, xvars, ovars, cvars>>

\* One entry of Process-ACLEntries. Get-Member lists the keys by name; the
\* entries are taken here in the order of the answer, which changes the order
\* of the rows and nothing else.
PSEntryStep(acls, isInherited) ==
    LET next == NextEntry(acls, aclIdx, aceIdx + 1)
    IN  /\ permissions' = psEntry(permissions, repo.name, repo.id,
                                  acls[aclIdx].acesDictionary[aceIdx], isInherited)
        /\ aclIdx' = next[1]
        /\ aceIdx' = next[2]

\* part_005 230-279, called with -isInherited $false.
PRepoEntry ==
    /\ script = "ps"
    /\ pc = "repoPass"
    /\ aclIdx <= Len(repoAcls)
    /\ PSEntryStep(repoAcls, FALSE)
    /\ UNCHANGED <<script, repositories, repoIdx, pc, processedIdentities, repoAcls,
                   projectAcls, allPermissions, log, profile, dvars, svars, xvars, ovars, cvars>>

\* part_005 306-319: the repository-level rows are appended as they are, and
\* Process-ACLEntries is called for the project token. `.Count` is read as
\* the number of rows returned (PowerShell 6.1 and later; on 5.1 a single
\* row has no Count).
PFetchProject ==
    /\ script = "ps"
    /\ pc = "repoPass"
    /\ aclIdx > Len(repoAcls)
    /\ allPermissions' = allPermissions \o permissions
    /\ permissions' = <<>>
    /\ PSFetch("project")
    /\ pc' = "projectPass"
    /\ UNCHANGED <<script, repositories, repoIdx, processedIdentities, profile,
                   dvars, svars, xvars, ovars, cvars>>

\* part_005 230-279, called with -isInherited $true.
PProjectEntry ==
    /\ script = "ps"
    /\ pc = "projectPass"
    /\ aclIdx <= Len(projectAcls)
    /\ PSEntryStep(projectAcls, TRUE)
    /\ UNCHANGED <<script, repositories, repoIdx, pc, processedIdentities, repoAcls,
                   projectAcls, allPermissions, log, profile, dvars, svars, xvars, ovars, cvars>>

\* part_005 321-345: the project-level rows are merged and the loop goes on.
PMerge ==
    /\ script = "ps"
    /\ pc = "projectPass"
    /\ aclIdx > Len(projectAcls)
    /\ allPermissions' = psMerge(allPermissions, permissions)
    /\ repoIdx' = repoIdx + 1
    /\ pc' = "loop"
    /\ UNCHANGED <<script, repositories, permissions, processedIdentities, repoAcls,
                   projectAcls, aclIdx, aceIdx, log, profile, dvars, svars, xvars, ovars, cvars>>

\* part_005 347-368: after the last repository the rows are exported.
PWrite ==
    /\ script = "ps"
    /\ pc = "loop"
    /\ repoIdx > Len(repositories)
    /\ pc' = "written"
    /\ UNCHANGED <<script, repositories, repoIdx, permissions, processedIdentities,
                   repoAcls, projectAcls, aclIdx, aceIdx, allPermissions, log,
                   profile, dvars, svars, xvars, ovars, cvars>>

PSNext == PFetchRepo \/ PRepoEntry \/ PFetchProject \/ PProjectEntry \/ PMerge
          \/ PWrite

-----------------------------------------------------------------------------
(* getUsersWithBranchPolicyPermissions and the repository loop of main.js.  *)

\* main.js 353-361: permissions_bits, in the order Object.entries lists it.
permissions_bits ==
    << <<"Bypass policies when completing pull requests", 32768>>,
       <<"Bypass policies when pushing", 128>>,
       <<"Contribute", 4>>,
       <<"Edit policies", 2048>>,
       <<"Force push (rewrite history, delete branches and tags)", 8>>,
       <<"Manage permissions", 8192>>,
       <<"Remove others' locks", 4096>> >>

\* How the identity services answer getIdentity of main.js in a run: the
\* list getAllIdentities has cached holds the groups; the query by
\* descriptor finds nobody else.
MainServices(descriptor) ==
    [bulk |-> IF \E i \in DOMAIN IdentityTable : IdentityTable[i].descriptor = descriptor
              THEN "cached match" ELSE "cached no match",
     query |-> "empty", graph |-> "fail", subjects |-> "fail"]

\* main.js 364-379: addPermission, on the pair (permissions,
\* processedIdentities) it closes over.
addPermissionMain(st, repositoryName, descriptor, identity, permissionName, source, isDirectAssignment) ==
    IF Key(descriptor, repositoryName, permissionName) \in st.processedIdentities
    THEN st
    ELSE [permissions |-> Append(st.permissions,
             [repository |-> repositoryName,
              identityType |-> Or(identity.subjectKind, "Unknown"),
              displayName |-> Or(identity.displayName, descriptor),
              mailAddress |-> identity.mailAddress,
              descriptor |-> descriptor,
              permission |-> permissionName,
              permissionSource |-> source,
              isDirectAssignment |-> IF isDirectAssignment THEN "Yes" ELSE "No"]),
          processedIdentities |-> st.processedIdentities
              \cup {Key(descriptor, repositoryName, permissionName)}]

\* main.js 410-418 (463-471): the loop over the expanded members.
RECURSIVE addMembersMain(_, _, _, _, _, _)
addMembersMain(st, repositoryName, members, i, permissionName, source) ==
    IF i > Len(members) THEN st
    ELSE addMembersMain(
            addPermissionMain(st, repositoryName, members[i].descriptor, members[i],
                              permissionName, source, FALSE),
            repositoryName, members, i + 1, permissionName, source)

\* What the two passes write differently. main.js 402, 415, 422: the
\* repository-level pass, which has no branch for an unresolved identity.
MainRepositoryLevel ==
    [group |-> "Direct Group Assignment", memberSuffix |-> "",
     user |-> "Direct User Assignment", writesUnresolved |-> FALSE, direct |-> TRUE]
\* main.js 456, 468, 475, 485: the project-level pass.
MainProjectLevel ==
    [group |-> "Project-level Group Assignment", memberSuffix |-> " (project-level)",
     user |-> "Project-level User Assignment", writesUnresolved |-> TRUE, direct |-> FALSE]

\* main.js 388-424 (445-486): the body of the loop over permissions_bits,
\* run when the bit is set in the allow mask.
processPermissionMain(st, table, repositoryName, descriptor, permissionName, level) ==
    LET identity == ResolveMain(descriptor, MainServices(descriptor)).identity
    IN  IF identity # Null
        THEN LET displayName ==
                    Or(identity.displayName, Or(identity.principalName, descriptor))
                 normalizedIdentity ==
                    [descriptor |-> Or(identity.descriptor, descriptor),
                     displayName |-> displayName,
                     mailAddress |-> identity.mailAddress,
                     subjectKind |-> Or(identity.subjectKind,
                         IF identity.isContainer THEN "group" ELSE "user")]
             IN  IF identity.isContainer \/ identity.subjectKind = "group"
                 THEN LET withGroup ==
                            addPermissionMain(st, repositoryName, descriptor,
                                normalizedIdentity, permissionName, level.group,
                                level.direct)
                          identityForExpansion == getIdentityById(identity.id)
                      IN  IF identityForExpansion # Null
                          THEN addMembersMain(withGroup, repositoryName,
                                   expandGroupMembers(table, identityForExpansion.id,
                                                      {}).allMembers,
                                   1, permissionName,
                                   "Member of " \o displayName \o level.memberSuffix)
                          ELSE withGroup
                 ELSE addPermissionMain(st, repositoryName, descriptor,
                          normalizedIdentity, permissionName, level.user, level.direct)
        ELSE IF level.writesUnresolved
        THEN LET unresolvedIdentity ==
                    [descriptor |-> descriptor,
                     displayName |-> "[Unresolved Group or User: "
                                     \o Substring60(descriptor) \o "...]",
                     mailAddress |-> "",
                     subjectKind |-> "unknown"]
             IN  addPermissionMain(st, repositoryName, descriptor, unresolvedIdentity,
                     permissionName, "Project-level (unresolved)", FALSE)
        ELSE st

\* main.js 383-427 (440-489): the loop over permissions_bits for one entry;
\* `ace.deny` is not read.
RECURSIVE processEntryMain(_, _, _, _, _, _, _, _)
processEntryMain(st, table, repositoryName, descriptor, allowBits, denyBits, level, k) ==
    IF k > Len(permissions_bits) THEN st
    ELSE LET permissionName == permissions_bits[k][1]
             bitValue == permissions_bits[k][2]
         IN  processEntryMain(
                 IF BitAnd(allowBits, bitValue) # 0
                 THEN processPermissionMain(st, table, repositoryName, descriptor,
                                            permissionName, level)
                 ELSE st,
                 table, repositoryName, descriptor, allowBits, denyBits, level, k + 1)

\* The number of bits of the catalog set in the allow mask.
RECURSIVE MainSetBits(_, _)
MainSetBits(allowBits, k) ==
    IF k > Len(permissions_bits) THEN 0
    ELSE (IF BitAnd(allowBits, permissions_bits[k][2]) # 0 THEN 1 ELSE 0)
         + MainSetBits(allowBits, k + 1)

\* main.js 109-124: the members request answers the table of the run, or
\* fails and [] is returned for every group asked.
MemberAnswers == {groupMembers, [g \in DOMAIN groupMembers |-> <<>>]}

\* main.js 301-313: the identities getProjectGroups keeps.
IsProjectGroup(identity) ==
    /\ identity.isContainer
    /\ identity.displayName = "[proj]\\Project Administrators"

\* main.js 285-322: getProjectGroups. The listing is answered and filtered,
\* or the request fails and [] is returned.
getProjectGroups ==
    { <<>>,
      SelectSeq(<<IdentityTable["id-G"], IdentityTable["id-H"], IdentityTable["id-A"],
                  IdentityTable["id-alice"], IdentityTable["id-bob"]>>, IsProjectGroup) }

\* main.js 497-500: `name.includes('Administrators')`.
IsAdminGroup(g) == g.displayName = "[proj]\\Project Administrators"

\* main.js 508-520: the group itself, for every permission of the catalog.
RECURSIVE addAdminGroup(_, _, _, _, _)
addAdminGroup(st, repositoryName, groupDescriptor, groupName, k) ==
    IF k > Len(permissions_bits) THEN st
    ELSE addAdminGroup(
            addPermissionMain(st, repositoryName, groupDescriptor,
                [displayName |-> groupName, mailAddress |-> "", subjectKind |-> "group",
                 descriptor |-> groupDescriptor],
                permissions_bits[k][1], groupName \o " (inherited)", FALSE),
            repositoryName, groupDescriptor, groupName, k + 1)

\* main.js 526-536: every member, for every permission of the catalog.
RECURSIVE addAdminMembers(_, _, _, _, _, _)
addAdminMembers(st, repositoryName, members, groupName, i, k) ==
    IF i > Len(members) THEN st
    ELSE IF k > Len(permissions_bits)
    THEN addAdminMembers(st, repositoryName, members, groupName, i + 1, 1)
    ELSE addAdminMembers(
            addPermissionMain(st, repositoryName, members[i].descriptor, members[i],
                              permissions_bits[k][1], "Member of " \o groupName, FALSE),
            repositoryName, members, groupName, i, k + 1)

\* main.js 502-538: the loop over the administrator groups.
RECURSIVE addAdminGroups(_, _, _, _, _)
addAdminGroups(st, table, repositoryName, adminGroups, g) ==
    IF g > Len(adminGroups) THEN st
    ELSE LET group == adminGroups[g]
             groupName == Or(group.displayName, "Unknown Group")
             groupDescriptor == Or(group.descriptor, group.id)
             withGroup == addAdminGroup(st, repositoryName, groupDescriptor, groupName, 1)
             members == expandGroupMembers(table, group.id, {}).allMembers
         IN  addAdminGroups(
                 addAdminMembers(withGroup, repositoryName, members, groupName, 1, 1),
                 table, repositoryName, adminGroups, g + 1)

\* The calls of expandGroupMembers the loop over the administrator groups makes.
RECURSIVE AdminExpansions(_, _, _)
AdminExpansions(counts, adminGroups, g) ==
    IF g > Len(adminGroups) THEN counts
    ELSE AdminExpansions([counts EXCEPT ![adminGroups[g].id] = @ + 1], adminGroups, g + 1)

\* main.js 570-571, 327-348: the loop takes the next repository and
\* getUsersWithBranchPolicyPermissions starts. The namespace list may hold
\* Git Repositories, lack it, or have no `value`; then the project is
\* requested, and a failure of that request is caught at 542.
MBegin ==
    /\ script = "main"
    /\ pc = "loop"
    /\ repoIdx <= Len(repositories)
    /\ permissions' = <<>>
    /\ processedIdentities' = {}
    /\ repoAcls' = <<>>
    /\ projectAcls' = <<>>
    /\ aclIdx' = 1
    /\ aceIdx' = 1
    /\ repoLevelRows' = 0
    /\ \E answer \in {"found", "missing", "no value", "no project"} :
          /\ pc' = IF answer = "found" THEN "repoFetch" ELSE "return"
          /\ log' = IF answer = "found" THEN log
                    ELSE IF answer = "missing"
                    THEN log \cup {<<"warn", repo.name>>}
                    ELSE Caught
    /\ UNCHANGED <<script, repositories, repoIdx, allPermissions, profile,
                   dvars, svars, xvars, ovars, lookups, expansions>>

\* main.js 350: the repository-level ACLs are fetched.
MFetchRepo ==
    /\ script = "main"
    /\ pc = "repoFetch"
    /\ \E a \in getACLs :
          /\ repoAcls' = a.value
          /\ aclIdx' = NextEntry(a.value, 1, 1)[1]
          /\ aceIdx' = NextEntry(a.value, 1, 1)[2]
          /\ pc' = IF a.thrown THEN "return" ELSE "repoPass"
          /\ log' = LogAfter(a, "repository")
    /\ UNCHANGED <<script, repositories, repoIdx, permissions, processedIdentities,
                   projectAcls, allPermissions, profile, dvars, svars, xvars, ovars, cvars>>

\* One entry of a pass (main.js 384-427, 439-489): a null ace throws at
\* `ace.allow` and the catch ends the repository.
MainEntryStep(acls, level) ==
    LET entry == acls[aclIdx].acesDictionary[aceIdx]
        descriptor == entry[1]
        ace == entry[2]
    IN  IF ace = Null
        THEN /\ pc' = "return"
             /\ log' = Caught
             /\ UNCHANGED <<permissions, processedIdentities, aclIdx, aceIdx,
                            lookups, expansions>>
        ELSE \E table \in MemberAnswers :
             LET st == processEntryMain(
                           [permissions |-> permissions,
                            processedIdentities |-> processedIdentities],
                           table, repo.name, descriptor, ace.allow, ace.deny, level, 1)
                 next == NextEntry(acls, aclIdx, aceIdx + 1)
                 calls == CallsAfter([lookups |-> lookups, expansions |-> expansions],
                                     descriptor,
                                     ResolveMain(descriptor, MainServices(descriptor)),
                                     MainSetBits(ace.allow, 1))
             IN  /\ permissions' = st.permissions
                 /\ processedIdentities' = st.processedIdentities
                 /\ lookups' = calls.lookups
                 /\ expansions' = calls.expansions
                 /\ aclIdx' = next[1]
                 /\ aceIdx' = next[2]
                 /\ UNCHANGED <<pc, log>>

\* main.js 382-429: the repository-level pass, one entry at a time.
MRepoEntry ==
    /\ script = "main"
    /\ pc = "repoPass"
    /\ aclIdx <= Len(repoAcls)
    /\ MainEntryStep(repoAcls, MainRepositoryLevel)
    /\ repoLevelRows' = Len(permissions')
    /\ UNCHANGED <<script, repositories, repoIdx, repoAcls, projectAcls,
                   allPermissions, profile, dvars, svars, xvars, ovars>>

\* main.js 432-434: the project-level ACLs, fetched when the first pass is
\* through.
MFetchProject ==
    /\ script = "main"
    /\ pc = "repoPass"
    /\ aclIdx > Len(repoAcls)
    /\ \E a \in getACLs :
          /\ projectAcls' = a.value
          /\ aclIdx' = NextEntry(a.value, 1, 1)[1]
          /\ aceIdx' = NextEntry(a.value, 1, 1)[2]
          /\ pc' = IF a.thrown THEN "return" ELSE "projectPass"
          /\ log' = LogAfter(a, "project")
    /\ UNCHANGED <<script, repositories, repoIdx, permissions, processedIdentities,
                   repoAcls, allPermissions, profile, dvars, svars, xvars, ovars, cvars>>

\* main.js 437-493: the project-level pass, one entry at a time.
MProjectEntry ==
    /\ script = "main"
    /\ pc = "projectPass"
    /\ aclIdx <= Len(projectAcls)
    /\ MainEntryStep(projectAcls, MainProjectLevel)
    /\ UNCHANGED <<script, repositories, repoIdx, repoAcls, projectAcls,
                   allPermissions, profile, dvars, svars, xvars, ovars, repoLevelRows>>

\* main.js 495-540: the groups of the project are listed and the
\* administrator groups and their members written for every permission.
MAdmin ==
    /\ script = "main"
    /\ pc = "projectPass"
    /\ aclIdx > Len(projectAcls)
    /\ \E projectGroups \in getProjectGroups, table \in MemberAnswers :
          LET adminGroups == SelectSeq(projectGroups, IsAdminGroup)
              st == addAdminGroups([permissions |-> permissions,
                                    processedIdentities |-> processedIdentities],
                                   table, repo.name, adminGroups, 1)
          IN  /\ permissions' = st.permissions
              /\ processedIdentities' = st.processedIdentities
              /\ expansions' = AdminExpansions(expansions, adminGroups, 1)
    /\ pc' = "return"
    /\ UNCHANGED <<script, repositories, repoIdx, repoAcls, projectAcls, aclIdx, aceIdx,
                   allPermissions, log, profile, dvars, svars, xvars, ovars,
                   lookups, repoLevelRows>>

\* main.js 546, 590-593: getUsersWithBranchPolicyPermissions returns
\* `permissions`, at its end or after the catch, and main appends them.
MReturn ==
    /\ script = "main"
    /\ pc = "return"
    /\ allPermissions' = allPermissions \o permissions
    /\ repoIdx' = repoIdx + 1
    /\ pc' = "loop"
    /\ UNCHANGED <<script, repositories, permissions, processedIdentities, repoAcls,
                   projectAcls, aclIdx, aceIdx, log, profile, dvars, svars, xvars,
                   ovars, cvars>>

\* main.js 617-635: after the last repository the rows are written.
MWrite ==
    /\ script = "main"
    /\ pc = "loop"
    /\ repoIdx > Len(repositories)
    /\ pc' = "written"
    /\ UNCHANGED <<script, repositories, repoIdx, permissions, processedIdentities,
                   repoAcls, projectAcls, aclIdx, aceIdx, allPermissions, log,
                   profile, dvars, svars, xvars, ovars, cvars>>

MainNext ==
    MBegin \/ MFetchRepo \/ MRepoEntry \/ MFetchProject \/ MProjectEntry \/ MAdmin
    \/ MReturn \/ MWrite

-----------------------------------------------------------------------------
(* The bit loop of each script over one entry of a user, taken alone: the   *)
(* rows it writes and the order it writes them in.                          *)

\* Masks tried: the three low bits in every combination, with one of the
\* higher bits the catalogs name.
MaskHighBits == {0, 128, 2048, 8192, 16384}
CatalogMasks == {lo + hi : lo \in 0..MaxMask, hi \in MaskHighBits}

\* part_005 80-97, 256: $gitPermissions is a hashtable (`@{ ... }`), whose
\* enumeration order the runtime does not promise; ascending and descending
\* bit order stand for the orders it may take.
HashtableOrders ==
    {gitPermissionsEnumerator,
     [i \in 1..Len(gitPermissionsEnumerator) |->
         gitPermissionsEnumerator[Len(gitPermissionsEnumerator) + 1 - i]]}

CatalogIdle ==
    /\ kPc = "off"
    /\ kScript = "none"
    /\ kAllow = 0
    /\ kDeny = 0
    /\ kOrder = <<>>
    /\ kRows = <<>>

CatalogStart ==
    /\ kPc = "in"
    /\ kScript = "none"
    /\ kAllow \in CatalogMasks
    /\ kDeny \in CatalogMasks
    /\ kOrder \in HashtableOrders
    /\ kRows = <<>>

NoRows == [permissions |-> <<>>, processedIdentities |-> {}]

\* part_003 461-523: the entry of a user in the repository-level pass.
KNode ==
    /\ kPc = "in"
    /\ kPc' = "out"
    /\ kScript' = "node"
    /\ kRows' = processEntry(NoRows, groupMembers, "r1", AliceD, kAllow, kDeny,
                             RepositoryLevel, 1).permissions
    /\ UNCHANGED <<kAllow, kDeny, kOrder, dvars, svars, xvars, evars, bvars, gvars, rvars, ivars>>

\* main.js 384-427: the entry of a user in the repository-level pass.
KMain ==
    /\ kPc = "in"
    /\ kPc' = "out"
    /\ kScript' = "main"
    /\ kRows' = processEntryMain(NoRows, groupMembers, "r1", AliceD, kAllow, kDeny,
                                 MainRepositoryLevel, 1).permissions
    /\ UNCHANGED <<kAllow, kDeny, kOrder, dvars, svars, xvars, evars, bvars, gvars, rvars, ivars>>

\* part_005 256-275: the entry of a user in Process-ACLEntries.
KPS ==
    /\ kPc = "in"
    /\ kPc' = "out"
    /\ kScript' = "ps"
    /\ kRows' = psBitsIn(kOrder, <<>>, "r1", "rid-1", AliceD,
                         identityLookup[AliceD].DisplayName, kAllow, kDeny, 1)
    /\ UNCHANGED <<kAllow, kDeny, kOrder, dvars, svars, xvars, evars, bvars, gvars, rvars, ivars>>

-----------------------------------------------------------------------------
(* getAllIdentities of main.js and its cache, call after call.              *)

\* A plausible slip: an empty list is taken for no list.
TruthyNonEmpty(cache) == cache # Null /\ cache.value # <<>>

\* main.js 183: `if (allIdentitiesCache)`. null is falsy; an array is truthy,
\* the empty one too.
Truthy(cache) == cache # Null

\* What the identities service may hold, and how the request may end: it
\* fails, it answers without a `value`, or it answers a list.
BulkLists ==
    {<<>>,
     <<DirectoryIdentity(GroupGD)>>,
     <<DirectoryIdentity(GroupGD), DirectoryIdentity(ServiceD)>>}
BulkAnswers ==
    {[kind |-> "fail", value |-> <<>>], [kind |-> "no value", value |-> <<>>]}
      \cup {[kind |-> "list", value |-> l] : l \in BulkLists}

\* main.js 182-195: one call, given how the request would end.
getAllIdentities(cache, answer) ==
    IF Truthy(cache)
    THEN [cache |-> cache, returned |-> cache.value, requested |-> FALSE,
          answered |-> FALSE]
    ELSE IF answer.kind = "fail"
    THEN [cache |-> cache, returned |-> <<>>, requested |-> TRUE, answered |-> FALSE]
    ELSE [cache |-> [isNull |-> FALSE, value |-> answer.value],
          returned |-> answer.value, requested |-> TRUE, answered |-> TRUE]

\* The calls of one process followed: main's own, then those of getIdentity.
MaxCalls == 4

IdentitiesIdle ==
    /\ allIdentitiesCache = Null
    /\ bulkCalls = <<>>
    /\ bulkPc = "off"

IdentitiesStart ==
    /\ allIdentitiesCache = Null
    /\ bulkCalls = <<>>
    /\ bulkPc = "main"

\* The call and what it leaves behind.
BulkCall(caller, descriptor) ==
    \E answer \in BulkAnswers :
        LET r == getAllIdentities(allIdentitiesCache, answer)
        IN  /\ allIdentitiesCache' = r.cache
            /\ bulkCalls' = Append(bulkCalls,
                  [caller |-> caller, descriptor |-> descriptor,
                   requested |-> r.requested,
                   answered |-> r.answered, returned |-> r.returned,
                   match |-> \E i \in DOMAIN r.returned :
                                r.returned[i].descriptor = descriptor])

\* main.js 558: main loads the identities before anything else.
IMain ==
    /\ bulkPc = "main"
    /\ BulkCall("main", "")
    /\ bulkPc' = "run"
    /\ UNCHANGED <<dvars, svars, xvars, evars, bvars, gvars, rvars, kvars>>

\* main.js 225-228: getIdentity looks for a TeamFoundation descriptor in the
\* list.
IGetIdentity ==
    /\ bulkPc = "run"
    /\ Len(bulkCalls) < MaxCalls
    /\ \E descriptor \in {GroupGD, ServiceD, UnknownD} :
          BulkCall("getIdentity", descriptor)
    /\ UNCHANGED <<bulkPc, dvars, svars, xvars, evars, bvars, gvars, rvars, kvars>>

-----------------------------------------------------------------------------

\* The repositories of the project, as getRepositories lists them.
Repo1 == [id |-> "rid-1", name |-> "r1"]
Repo2 == [id |-> "rid-2", name |-> "r2"]

\* Membership tables of the runs: G holds alice and H, H holds bob; or G and
\* H hold each other and both hold alice.
RunMemberTables(p) ==
    IF p = "main"
    THEN { ("id-G" :> <<"id-alice">> @@ "id-H" :> <<>> @@ "id-A" :> <<"id-bob">>) }
    ELSE
    { ("id-G" :> <<"id-alice", "id-H">> @@ "id-H" :> <<"id-bob">>) }
    \cup IF p = "wide" THEN {}
         ELSE { ("id-G" :> <<"id-H", "id-alice">> @@ "id-H" :> <<"id-alice", "id-G">>) }

\* A run starts at the head of the repository loop.
RunStart(scripts, repos, p) ==
    /\ script \in scripts
    /\ repositories = repos
    /\ repoIdx = 1
    /\ pc = "loop"
    /\ permissions = <<>>
    /\ processedIdentities = {}
    /\ repoAcls = <<>>
    /\ projectAcls = <<>>
    /\ aclIdx = 1
    /\ aceIdx = 1
    /\ allPermissions = <<>>
    /\ log = {}
    /\ profile = p
    /\ lookups = NoCalls.lookups
    /\ expansions = NoCalls.expansions
    /\ repoLevelRows = 0
    /\ groupMembers \in RunMemberTables(p)

-----------------------------------------------------------------------------
(* The start of the entry scripts: reading the three configuration values,  *)
(* checking them, and the first request to an external service.             *)

\* The Node scripts that check the configuration, the cache builder, and the
\* PowerShell scripts.
NodeEntries == {"main", "repos"}
CacheEntries == {"cache"}
PSEntries == {"ps-repos", "ps-repos-cwd", "ps-policies"}
Entries == NodeEntries \cup CacheEntries \cup PSEntries

\* A configuration value is absent, present and empty, or present.
ConfigValues == {"unset", "empty", "set"}

\* JS `!value` on undefined and on "", PowerShell `-not $value` on $null
\* and on "".
Falsy(value) == value \in {"unset", "empty"}

\* The first request each script issues once it runs.
FirstRequest(e) ==
    CASE e = "main" -> "identities"
      [] e = "repos" -> "git/repositories"
      [] e = "cache" -> "projects/teams"
      [] e = "ps-repos" -> "az devops project show"
      [] e = "ps-repos-cwd" -> "az devops project show"
      [] e = "ps-policies" -> "az repos list"

BootIdle ==
    /\ started = "off"
    /\ envFile = FALSE
    /\ orgUrl = "unset"
    /\ project = "unset"
    /\ pat = "unset"
    /\ bootPc = "off"
    /\ exitCode = "running"
    /\ requests = <<>>

\* A script is started in some environment.  The PowerShell scripts read the
\* values from the .env file only, so without the file they are all absent.
BootStart ==
    /\ started \in Entries
    /\ envFile \in BOOLEAN
    /\ orgUrl \in ConfigValues
    /\ project \in ConfigValues
    /\ pat \in ConfigValues
    /\ (started \in PSEntries /\ ~envFile) =>
            (orgUrl = "unset" /\ project = "unset" /\ pat = "unset")
    /\ bootPc = "start"
    /\ exitCode = "running"
    /\ requests = <<>>

\* `if (!orgUrl || !project || !pat) { ...; process.exit(1); }`, and
\* `if (-not $orgUrl -or -not $project -or -not $pat) { ...; exit 1 }`.
Validate(o, p, t) == ~(Falsy(o) \/ Falsy(p) \/ Falsy(t))

\* main.js and the repository-permissions script check the configuration
\* at module level, before main() is called.
BootNode ==
    /\ started \in NodeEntries
    /\ bootPc = "start"
    /\ IF Validate(orgUrl, project, pat)
       THEN bootPc' = "run" /\ UNCHANGED exitCode
       ELSE bootPc' = "exited" /\ exitCode' = "1"
    /\ UNCHANGED <<started, envFile, orgUrl, project, pat, requests>>
    /\ UNCHANGED <<dvars, svars, xvars, evars, gvars, rvars, kvars, ivars>>

\* The cache builder reads the three values and creates the axios instance;
\* it has no check.
BootCache ==
    /\ started \in CacheEntries
    /\ bootPc = "start"
    /\ bootPc' = "run"
    /\ UNCHANGED <<started, envFile, orgUrl, project, pat, exitCode, requests>>
    /\ UNCHANGED <<dvars, svars, xvars, evars, gvars, rvars, kvars, ivars>>

\* The PowerShell scripts stop when the .env file is missing, then when a
\* value is missing.
BootPS ==
    /\ started \in PSEntries
    /\ bootPc = "start"
    /\ IF envFile /\ Validate(orgUrl, project, pat)
       THEN bootPc' = "run" /\ UNCHANGED exitCode
       ELSE bootPc' = "exited" /\ exitCode' = "1"
    /\ UNCHANGED <<started, envFile, orgUrl, project, pat, requests>>
    /\ UNCHANGED <<dvars, svars, xvars, evars, gvars, rvars, kvars, ivars>>

\* The first request, built from the values as they are.  When it fails the
\* repository-permissions script and the PowerShell scripts exit with 1;
\* main.js starts with getAllIdentities, which answers [] for a failure, and
\* the cache builder logs the failure in its .catch handler and the process
\* ends with 0.  When it succeeds the run goes on to its end.
BootRequest ==
    /\ bootPc = "run"
    /\ requests' = Append(requests, [call |-> FirstRequest(started), orgUrl |-> orgUrl,
                                     project |-> project, pat |-> pat])
    /\ bootPc' = "exited"
    /\ \E ok \in BOOLEAN :
          exitCode' = IF ok \/ started \in CacheEntries \cup {"main"} THEN "0" ELSE "1"
    /\ UNCHANGED <<started, envFile, orgUrl, project, pat>>
    /\ UNCHANGED <<dvars, svars, xvars, evars, gvars, rvars, kvars, ivars>>

-----------------------------------------------------------------------------
(* getBranchPolicies of main.js: the policy configurations of the project,  *)
(* filtered to those of one branch of one repository.                       *)

\* A ref name is the sequence of its path segments; NoRef is a scope without
\* refName, NoRepository a scope without repositoryId.
NoRef == <<>>
NoRepository == "null"
RefsHeads(name) == <<"refs", "heads", name>>

\* The scopes a policy configuration may carry.
RepositoryIds == {"rid-1", "rid-2", NoRepository}
RefNames == {RefsHeads("main"), RefsHeads("release"), <<"refs", "heads">>, NoRef}
MatchKinds == {"Exact", "Prefix"}
Scopes == [repositoryId : RepositoryIds, refName : RefNames, matchKind : MatchKinds]

\* A configuration: `settings.scope` holds at most MaxScopes scopes; hasScope
\* is FALSE for settings without scope.
MaxScopes == 1
ScopeLists == UNION {[1..n -> Scopes] : n \in 0..MaxScopes}
Configurations ==
    {[isEnabled |-> e, hasScope |-> h, scope |-> s] :
        e \in BOOLEAN, h \in BOOLEAN, s \in ScopeLists} \
    {c \in [isEnabled : BOOLEAN, hasScope : {FALSE}, scope : ScopeLists] : c.scope # <<>>}

\* The answers of the service: a failure, or a list of at most
\* MaxConfigurations configurations.
MaxConfigurations == 2
Answers ==
    {[ok |-> FALSE, value |-> <<>>]} \cup
    {[ok |-> TRUE, value |-> v] : v \in UNION {[1..n -> Configurations] : n \in 0..MaxConfigurations}}

\* main.js 54-68: the predicate of the filter.
scopeMatches(policy, id, name) ==
    /\ policy.isEnabled
    /\ policy.hasScope
    /\ \E i \in 1..Len(policy.scope) :
          LET scope == policy.scope[i]
              matchesRepo == scope.repositoryId = id
              matchesBranch == \/ scope.refName = RefsHeads(name)
                               \/ scope.refName = RefsHeads("main")
                               \/ scope.matchKind = "Prefix"
          IN  matchesRepo /\ (matchesBranch \/ scope.refName = NoRef)

\* Array.prototype.filter: the elements that pass, in their order.
RECURSIVE Filter(_, _, _)
Filter(list, id, name) ==
    IF list = <<>> THEN <<>>
    ELSE (IF scopeMatches(Head(list), id, name) THEN <<Head(list)>> ELSE <<>>)
         \o Filter(Tail(list), id, name)

PoliciesIdle ==
    /\ polPc = "off"
    /\ polRepositoryId = "off"
    /\ polBranchName = "off"
    /\ configurations = [ok |-> FALSE, value |-> <<>>]
    /\ policies = <<>>

\* main.js 574: getBranchPolicies(repo.id, 'main').
PoliciesStart ==
    /\ polPc = "call"
    /\ polRepositoryId \in {"rid-1", "rid-2"}
    /\ polBranchName = "main"
    /\ configurations \in Answers
    /\ policies = <<>>

\* main.js 49-71: the request is answered and the configurations filtered.
PFilter ==
    /\ polPc = "call"
    /\ configurations.ok
    /\ policies' = Filter(configurations.value, polRepositoryId, polBranchName)
    /\ polPc' = "returned"
    /\ UNCHANGED <<polRepositoryId, polBranchName, configurations>>
    /\ UNCHANGED <<dvars, svars, xvars, evars, bvars, rvars, kvars, ivars>>

\* main.js 72-75: the request fails, the error is logged and [] returned.
PCatch ==
    /\ polPc = "call"
    /\ ~configurations.ok
    /\ policies' = <<>>
    /\ polPc' = "returned"
    /\ UNCHANGED <<polRepositoryId, polBranchName, configurations>>
    /\ UNCHANGED <<dvars, svars, xvars, evars, bvars, rvars, kvars, ivars>>

\* The components that have a specification of their own stand still.
OtherIdle == BootIdle /\ PoliciesIdle /\ ResolveIdle /\ CatalogIdle /\ IdentitiesIdle

-----------------------------------------------------------------------------
(* Specifications.                                                          *)

\* One repository, the wide range of ACL answers.
Init == RunStart({"node", "ps"}, <<Repo1>>, "wide") /\ DecideIdle /\ ExpandIdle /\ OtherIdle

Next == NodeNext \/ PSNext

Spec == Init /\ [][Next]_vars

\* Two repositories, the narrow range of ACL answers.
RunRepositories == <<Repo1, Repo2>>
RunInit == RunStart({"node", "ps"}, RunRepositories, "narrow") /\ DecideIdle /\ ExpandIdle /\ OtherIdle

SpecRun == RunInit /\ [][Next]_vars

\* main.js: one repository, the answers of the main range; a members request
\* may fail.
MainInit == RunStart({"main"}, <<Repo1>>, "main") /\ DecideIdle /\ ExpandIdle /\ OtherIdle

SpecMain == MainInit /\ [][MainNext]_vars

DecideInit ==
    /\ DecideStart
    /\ OtherIdle
    /\ ExpandIdle
    /\ EngineIdle
    /\ groupMembers = [g \in GroupIds |-> <<>>]

DecideNext == DecideNode \/ DecidePS

SpecDecide == DecideInit /\ [][DecideNext]_vars

ExpandInit == ExpandStart /\ DecideIdle /\ EngineIdle /\ OtherIdle

ExpandNext == XCall \/ XSkip \/ XEnter \/ XMember \/ XReturn

\* Each step of the recursion is a call that returns or a request that is
\* answered or fails, so a call that can take a step takes it.
SpecExpand == ExpandInit /\ [][ExpandNext]_vars /\ WF_vars(ExpandNext)

\* The group-in-group edges of the membership table, and their closure.
GroupEdges ==
    {e \in GroupIds \X GroupIds : e[2] \in SeqToSet(groupMembers[e[1]])}

RECURSIVE Closure(_, _)
Closure(R, n) ==
    IF n = 0 THEN R
    ELSE Closure(R \cup {e \in GroupIds \X GroupIds :
                            \E b \in GroupIds : <<e[1], b>> \in R /\ <<b, e[2]>> \in R},
                 n - 1)

\* Some group is, directly or transitively, a member of itself.
Cyclic == \E g \in GroupIds : <<g, g>> \in Closure(GroupEdges, Cardinality(GroupIds))

\* The step-by-step recursion and the function agree on the returned list.
ExpandAgrees ==
    xPc = "done" =>
        /\ xResult = expandGroupMembers(groupMembers, xRoot, {}).allMembers
        /\ xVisited = expandGroupMembers(groupMembers, xRoot, {}).visited

\* C4: expandGroupMembers terminates for every membership graph, cyclic ones
\* included, and no group's members are listed a second time: a group id
\* already in the visited set is not expanded again.
C4_ExpansionTerminates ==
    /\ <>(xPc = "done")
    /\ [](\A g \in GroupIds : xListed[g] <= 1)

\* A call on a cyclic graph has returned, having met the visited group again.
C4_Witness ==
    /\ xPc = "done"
    /\ Cyclic
    /\ xRoot \in GroupIds
    /\ <<xRoot, xRoot>> \in Closure(GroupEdges, Cardinality(GroupIds))
    /\ xListed[xRoot] = 1

\* C5: on a graph with a cycle the returned list holds each distinct user at
\* most once, also a user who is a direct member of several groups on the
\* expansion path.
C5_EachUserOnce ==
    (xPc = "done" /\ Cyclic) =>
        \A i, j \in DOMAIN xResult :
            i # j => xResult[i].descriptor # xResult[j].descriptor

\* What does hold: a user is listed once for each expanded group that holds
\* the user directly, and every expanded group is expanded once.
C5_OncePerExpandedGroup ==
    xPc = "done" =>
        \A u \in UserIds :
            Cardinality({i \in DOMAIN xResult : xResult[i].id = u})
              = Cardinality({g \in xVisited \cap GroupIds :
                                u \in SeqToSet(groupMembers[g])})

\* An entry of a member list is a user's: the identities endpoint answers for
\* its id with an identity that is no container.
LeafEntry(m) ==
    /\ m.subjectKind = "user"
    /\ m.id \in DOMAIN IdentityTable
    /\ ~IdentityTable[m.id].isContainer
    /\ m.descriptor = IdentityTable[m.id].descriptor

\* C21: the list expandGroupMembers returns, and every list a nested call
\* is building on the way, holds only user identities: no group, the
\* expanded one or a nested one, is an entry of it, whatever the membership
\* graph.
C21_OnlyLeafIdentities ==
    /\ \A i \in DOMAIN xResult : LeafEntry(xResult[i])
    /\ \A f \in DOMAIN xStack :
          \A i \in DOMAIN xStack[f].allMembers : LeafEntry(xStack[f].allMembers[i])

\* A call on a group that holds a user and a nested group with a user of its
\* own has returned both users.
C21_Witness ==
    /\ xPc = "done"
    /\ xRoot \in GroupIds
    /\ \E h \in GroupIds \ {xRoot} :
          /\ h \in SeqToSet(groupMembers[xRoot])
          /\ h \in xVisited
          /\ \E u \in UserIds :
                /\ u \in SeqToSet(groupMembers[h])
                /\ \E i \in DOMAIN xResult : xResult[i].id = u
    /\ \E u \in UserIds : u \in SeqToSet(groupMembers[xRoot])
    /\ Len(xResult) >= 2

-----------------------------------------------------------------------------
(* The rows of a run, read alike for both scripts.                          *)

RowRepository(r) == IF script = "node" THEN r.repository ELSE r.Repository
RowDescriptor(r) == IF script = "node" THEN r.descriptor ELSE r.IdentityDescriptor
RowPermission(r) == IF script = "node" THEN r.permission ELSE r.Permission
RowAccess(r) == IF script = "node" THEN r.allow ELSE r.Access

\* The row was written by the repository-level pass.
RowFromRepository(r) ==
    IF script = "node"
    THEN r.permissionSource \in {"Direct User Assignment", "Direct Group Assignment",
                                 "Direct Assignment (unresolved)"}
    ELSE r.IdentityDisplayName = identityLookup[r.IdentityDescriptor].DisplayName

\* The catalog of the running script, as <<name, bit>> pairs.
Catalog ==
    IF script = "node" THEN SeqToSet(permissionsBits)
    ELSE {<<gitPermissions[b], b>> : b \in DOMAIN gitPermissions}

\* The decision the rule of C1 gives.
RuleDecision(ace, bit) ==
    IF BitAnd(ace.deny, bit) = bit THEN "Deny"
    ELSE IF BitAnd(ace.allow, bit) = bit THEN "Allow"
    ELSE "Not Set"

\* The positions of the entries of a response, and the entry at a position.
EntryPositions(acls) ==
    UNION {{<<i, j>> : j \in 1..EntryCount(acls[i])} : i \in DOMAIN acls}
EntryAt(acls, p) == acls[p[1]].acesDictionary[p[2]]

\* The number of entries of a response that name the descriptor.
Occurrences(acls, d) ==
    Cardinality({p \in EntryPositions(acls) : EntryAt(acls, p)[1] = d})

\* The descriptors of the users the expansion of a group entry lists.
ExpandedDescriptors(d) ==
    LET identity == getIdentity(d)
    IN  IF identity = Null THEN {}
        ELSE IF ~identity.isContainer THEN {}
        ELSE IF getIdentityById(identity.id) = Null THEN {}
        ELSE {m.descriptor : m \in
                SeqToSet(expandGroupMembers(groupMembers, identity.id, {}).allMembers)}

\* Some group entry of the response lists the descriptor among its members.
CoveredByGroup(acls, d) ==
    \E p \in EntryPositions(acls) : d \in ExpandedDescriptors(EntryAt(acls, p)[1])

\* The rows of the report for a repository, descriptor and permission.
RowsFor(name, d, permissionName) ==
    {i \in DOMAIN allPermissions :
        /\ RowRepository(allPermissions[i]) = name
        /\ RowDescriptor(allPermissions[i]) = d
        /\ RowPermission(allPermissions[i]) = permissionName}

\* The only repository of the run was processed to its end without an
\* exception, and the report is written.
WrittenCleanly ==
    /\ pc = "written"
    /\ Len(repositories) = 1
    /\ <<"error", repositories[1].name>> \notin log
    /\ <<"warn", repositories[1].name>> \notin log

\* C2: no two rows of the report share repository name, identity descriptor
\* and permission name, whatever the responses held: several ACLs in one
\* response, groups whose members are also listed themselves.
C2_NoDuplicateRecords ==
    \A i, j \in DOMAIN allPermissions :
        i # j =>
            <<RowRepository(allPermissions[i]), RowDescriptor(allPermissions[i]),
              RowPermission(allPermissions[i])>>
            # <<RowRepository(allPermissions[j]), RowDescriptor(allPermissions[j]),
                RowPermission(allPermissions[j])>>

\* C3: an identity with one entry at the repository scope and one at the
\* project scope, both deciding a permission, has exactly one row for that
\* permission, with the access value of the repository scope and written by
\* the repository-level pass.
C3_RepositoryScopeWins ==
    WrittenCleanly =>
        \A p \in EntryPositions(repoAcls), q \in EntryPositions(projectAcls) :
            LET d == EntryAt(repoAcls, p)[1]
                repoAce == EntryAt(repoAcls, p)[2]
                projectAce == EntryAt(projectAcls, q)[2]
            IN  ( /\ EntryAt(projectAcls, q)[1] = d
                  /\ Occurrences(repoAcls, d) = 1
                  /\ Occurrences(projectAcls, d) = 1
                  /\ ~CoveredByGroup(repoAcls, d)
                  /\ ~CoveredByGroup(projectAcls, d) )
                =>
                \A c \in Catalog :
                    ( /\ RuleDecision(repoAce, c[2]) # "Not Set"
                      /\ RuleDecision(projectAce, c[2]) # "Not Set" )
                    =>
                    LET rows == RowsFor(repositories[1].name, d, c[1])
                    IN  /\ Cardinality(rows) = 1
                        /\ \A i \in rows :
                              /\ RowAccess(allPermissions[i])
                                    = RuleDecision(repoAce, c[2])
                              /\ RowFromRepository(allPermissions[i])

\* The descriptor is one no lookup of the running script resolves.
Unresolvable(d) ==
    IF script = "node" THEN getIdentity(d) = Null ELSE d \notin DOMAIN identityLookup

\* C6: an entry whose descriptor cannot be resolved, at either scope, has
\* exactly one row for each permission set on it, of kind Unknown and named
\* after the truncated descriptor.
C6_UnknownIdentityRecords ==
    WrittenCleanly =>
        \A scope \in {"repository", "project"} :
            LET acls == IF scope = "repository" THEN repoAcls ELSE projectAcls
                other == IF scope = "repository" THEN projectAcls ELSE repoAcls
            IN  \A p \in EntryPositions(acls) :
                    LET d == EntryAt(acls, p)[1]
                        ace == EntryAt(acls, p)[2]
                    IN  ( /\ Unresolvable(d)
                          /\ Occurrences(acls, d) = 1
                          /\ Occurrences(other, d) = 0 )
                        =>
                        \A c \in Catalog :
                            RuleDecision(ace, c[2]) # "Not Set" =>
                                LET rows == RowsFor(repositories[1].name, d, c[1])
                                IN  /\ Cardinality(rows) = 1
                                    /\ \A i \in rows :
                                          /\ allPermissions[i].identityType = "unknown"
                                          /\ allPermissions[i].displayName
                                               = "[Unresolved: " \o Substring60(d) \o "...]"

\* The entries of both responses whose group expansion lists the descriptor.
GroupCover(d) ==
    Cardinality({p \in EntryPositions(repoAcls) :
                    d \in ExpandedDescriptors(EntryAt(repoAcls, p)[1])})
    + Cardinality({q \in EntryPositions(projectAcls) :
                    d \in ExpandedDescriptors(EntryAt(projectAcls, q)[1])})

\* The entry at position p of the repository-level response is the only
\* thing in the responses that decides for its identity, a user the script
\* resolves, and its deny mask is 0.
UserAllowedAtRepository(p) ==
    LET d == EntryAt(repoAcls, p)[1]
        ace == EntryAt(repoAcls, p)[2]
    IN  /\ ace # Null
        /\ ace.deny = 0
        /\ getIdentity(d) # Null
        /\ ~getIdentity(d).isContainer
        /\ getIdentity(d).subjectKind = "user"
        /\ Occurrences(repoAcls, d) = 1
        /\ Occurrences(projectAcls, d) = 0
        /\ GroupCover(d) = 0

\* C7: a resolvable user entry at the repository scope with deny mask 0 has
\* exactly one row for each catalog permission whose bit is in the allow
\* mask, with access Allow and marked direct, and no other row.
C7_DirectUserAllow ==
    (script = "node" /\ WrittenCleanly) =>
        \A p \in EntryPositions(repoAcls) :
            UserAllowedAtRepository(p) =>
                LET d == EntryAt(repoAcls, p)[1]
                    ace == EntryAt(repoAcls, p)[2]
                IN  \A k \in DOMAIN permissionsBits :
                        LET rows == RowsFor(repositories[1].name, d,
                                            permissionsBits[k][1])
                        IN  IF BitAnd(ace.allow, permissionsBits[k][2])
                                 = permissionsBits[k][2]
                            THEN /\ Cardinality(rows) = 1
                                 /\ \A i \in rows :
                                       /\ allPermissions[i].allow = "Allow"
                                       /\ allPermissions[i].isDirectAssignment = "Yes"
                            ELSE rows = {}

\* alice has allow 6 and deny 0 at the repository scope, nothing else decides
\* for her, and the report holds two rows for her: Read and Contribute.
C7_Witness ==
    /\ script = "node"
    /\ WrittenCleanly
    /\ \E p \in EntryPositions(repoAcls) :
          /\ EntryAt(repoAcls, p) = <<AliceD, [allow |-> 6, deny |-> 0]>>
          /\ UserAllowedAtRepository(p)
    /\ {allPermissions[i].permission :
           i \in {j \in DOMAIN allPermissions : allPermissions[j].descriptor = AliceD}}
         = {"Read", "Contribute"}
    /\ Cardinality({j \in DOMAIN allPermissions :
                       allPermissions[j].descriptor = AliceD}) = 2

\* The list the expansion of a group entry returns.
ExpandedMembers(d) ==
    expandGroupMembers(groupMembers, getIdentity(d).id, {}).allMembers

\* The entry at position q of the project-level response is a group with a
\* single user member, and nothing else in the responses decides for the
\* group or for the member.
GroupWithOneMemberAtProject(q) ==
    LET g == EntryAt(projectAcls, q)[1]
        ace == EntryAt(projectAcls, q)[2]
    IN  /\ ace # Null
        /\ getIdentity(g) # Null
        /\ getIdentity(g).isContainer
        /\ Len(ExpandedMembers(g)) = 1
        /\ Occurrences(projectAcls, g) = 1
        /\ Occurrences(repoAcls, g) = 0
        /\ Occurrences(projectAcls, ExpandedMembers(g)[1].descriptor) = 0
        /\ Occurrences(repoAcls, ExpandedMembers(g)[1].descriptor) = 0
        /\ GroupCover(ExpandedMembers(g)[1].descriptor) = 1

-----------------------------------------------------------------------------
(* Failures during a run of several repositories (SpecRun).                 *)

\* The rows written so far: those collected, and those of the call that is
\* under way.
Rows ==
    IF pc \in {"loop", "written"} THEN allPermissions
    ELSE allPermissions \o permissions

\* A repository is being processed.
InRepository == repoIdx \in DOMAIN repositories

\* The scope being gone through has no entry.
EmptyScopeNow ==
    \/ pc = "repoPass" /\ TotalEntries(repoAcls) = 0
    \/ pc = "projectPass" /\ TotalEntries(projectAcls) = 0

\* What C9 asks of one step.
C9_Step ==
    \* a fetch that failed leaves an empty scope, no row and no exception
    /\ ( /\ InRepository
         /\ \E token \in {"repository", "project"} :
               /\ <<"acl error", repo.name, token>> \in log'
               /\ <<"acl error", repo.name, token>> \notin log )
       => /\ pc' \in {"repoPass", "projectPass"}
          /\ EmptyScopeNow'
          /\ Rows' = Rows
          /\ <<"error", repo.name>> \notin log'
    \* a scope that turns out empty adds no row and logs no exception
    /\ (pc # pc' /\ pc' \in {"repoPass", "projectPass"} /\ EmptyScopeNow')
       => /\ Rows' = Rows
          /\ <<"error", repo.name>> \notin log'
    \* after an empty repository scope the project scope is fetched
    /\ (pc = "repoPass" /\ TotalEntries(repoAcls) = 0)
       => \/ pc' = "projectPass"
          \/ script = "node" /\ pc' = "return" /\ <<"error", repo.name>> \in log'
    \* after an empty project scope the loop goes on with the rows it has
    /\ (pc = "projectPass" /\ TotalEntries(projectAcls) = 0)
       => /\ pc' = "loop"
          /\ repoIdx' = repoIdx + 1
          /\ Rows' = Rows
          /\ log' = log

\* The step C9 asks for can be taken.
C9_Continues ==
    /\ (script = "node" /\ pc = "repoPass" /\ TotalEntries(repoAcls) = 0)
       => ENABLED NFetchProject
    /\ (script = "ps" /\ pc = "repoPass" /\ TotalEntries(repoAcls) = 0)
       => ENABLED PFetchProject
    /\ (script = "node" /\ pc = "projectPass" /\ TotalEntries(projectAcls) = 0)
       => ENABLED NReturn
    /\ (script = "ps" /\ pc = "projectPass" /\ TotalEntries(projectAcls) = 0)
       => ENABLED PMerge
    /\ (pc = "loop" /\ InRepository)
       => IF script = "node" THEN ENABLED NBegin ELSE ENABLED PFetchRepo

\* C9: a scope whose fetch failed or answered no entry contributes no row
\* and raises no exception; the next scope of the repository is fetched and
\* the loop goes on to the repositories after it.
C9_EmptyScopeContinues ==
    /\ [][C9_Step]_vars
    /\ []C9_Continues

\* The repository-level fetch of r1 failed without an exception; the report
\* is written and holds rows of r1, from its project scope, and of r2.
C9_Witness ==
    /\ pc = "written"
    /\ <<"acl error", "r1", "repository">> \in log
    /\ <<"error", "r1">> \notin log
    /\ \E i \in DOMAIN allPermissions : RowRepository(allPermissions[i]) = "r1"
    /\ \E i \in DOMAIN allPermissions : RowRepository(allPermissions[i]) = "r2"

\* What C10 asks of one step of the Node script.
C10_Step ==
    \* the exception ends the repository and takes no row away
    /\ ( /\ script = "node"
         /\ InRepository
         /\ <<"error", repo.name>> \in log'
         /\ <<"error", repo.name>> \notin log )
       => /\ pc' = "return"
          /\ Rows' = Rows
          /\ allPermissions' = allPermissions
    \* the rows of the repository are collected and the loop goes on
    /\ (script = "node" /\ pc = "return")
       => /\ pc' = "loop"
          /\ repoIdx' = repoIdx + 1
          /\ allPermissions' = allPermissions \o permissions
    \* the next repository is begun
    /\ (script = "node" /\ pc = "loop" /\ InRepository)
       => /\ pc' \in {"repoFetch", "return"}
          /\ repoIdx' = repoIdx
    \* a collected row stays
    /\ Len(allPermissions') >= Len(allPermissions)
    /\ SubSeq(allPermissions', 1, Len(allPermissions)) = allPermissions

\* The step C10 asks for can be taken.
C10_Continues ==
    /\ (script = "node" /\ pc = "return") => ENABLED NReturn
    /\ (script = "node" /\ pc = "loop")
       => IF InRepository THEN ENABLED NBegin ELSE ENABLED NWrite

-----------------------------------------------------------------------------
(* The start of the entry scripts.                                          *)

BootInit ==
    /\ BootStart
    /\ IdentitiesIdle
    /\ CatalogIdle
    /\ ResolveIdle
    /\ PoliciesIdle
    /\ DecideIdle
    /\ ExpandIdle
    /\ EngineIdle
    /\ groupMembers = [g \in GroupIds |-> <<>>]

BootNext == BootNode \/ BootCache \/ BootPS \/ BootRequest

SpecBoot == BootInit /\ [][BootNext]_vars

\* C11: once a script has left its start with one of the three configuration
\* values missing, it has exited with status 1 and has issued no request.
C11_MissingConfigurationStops ==
    (bootPc \notin {"off", "start"} /\ ~Validate(orgUrl, project, pat)) =>
        (bootPc = "exited" /\ exitCode = "1" /\ requests = <<>>)

\* The scripts that check: the same, without the cache builder.
C11_CheckedEntriesStop ==
    (started \notin CacheEntries /\ bootPc \notin {"off", "start"}
        /\ ~Validate(orgUrl, project, pat)) =>
        (bootPc = "exited" /\ exitCode = "1" /\ requests = <<>>)


-----------------------------------------------------------------------------
(* getBranchPolicies.                                                       *)

PoliciesInit ==
    /\ PoliciesStart
    /\ IdentitiesIdle
    /\ CatalogIdle
    /\ ResolveIdle
    /\ BootIdle
    /\ DecideIdle
    /\ ExpandIdle
    /\ EngineIdle
    /\ groupMembers = [g \in GroupIds |-> <<>>]

PoliciesNext == PFilter \/ PCatch

SpecPolicies == PoliciesInit /\ [][PoliciesNext]_vars

\* Whether p is a prefix of the ref name r, segment by segment.
IsPrefix(p, r) == Len(p) <= Len(r) /\ \A i \in 1..Len(p) : p[i] = r[i]

\* A scope covers a branch of a repository when it names that repository or
\* no repository, and names no ref, that ref exactly, or a prefix of it.
Covers(scope, id, name) ==
    /\ scope.repositoryId \in {id, NoRepository}
    /\ \/ scope.refName = NoRef
       \/ scope.matchKind = "Exact" /\ scope.refName = RefsHeads(name)
       \/ scope.matchKind = "Prefix" /\ IsPrefix(scope.refName, RefsHeads(name))

\* An enabled configuration with a scope that covers the branch.
Applies(policy, id, name) ==
    /\ policy.isEnabled
    /\ policy.hasScope
    /\ \E i \in 1..Len(policy.scope) : Covers(policy.scope[i], id, name)

\* The positions of the configurations that apply.
Applying == {i \in 1..Len(configurations.value) : Applies(configurations.value[i], polRepositoryId, "main")}

\* C13: an answered call for 'main' returns exactly the enabled
\* configurations that apply to refs/heads/main of the repository: each one
\* returned applies, and the number returned is the number that apply.
C13_ExactlyTheMainBranchPolicies ==
    (polPc = "returned" /\ configurations.ok) =>
        /\ \A i \in 1..Len(policies) : Applies(policies[i], polRepositoryId, "main")
        /\ Len(policies) = Cardinality(Applying)

\* What the filter does keep: every configuration returned is enabled and
\* has a scope that names the repository itself.
C13_ReturnedAreEnabledAndOfTheRepository ==
    polPc = "returned" =>
        \A i \in 1..Len(policies) :
            /\ policies[i].isEnabled
            /\ \E j \in 1..Len(policies[i].scope) : policies[i].scope[j].repositoryId = polRepositoryId


-----------------------------------------------------------------------------
(* getIdentity.                                                             *)

ResolveInit ==
    /\ ResolveStart
    /\ IdentitiesIdle
    /\ CatalogIdle
    /\ BootIdle
    /\ PoliciesIdle
    /\ DecideIdle
    /\ ExpandIdle
    /\ EngineIdle
    /\ groupMembers = [g \in GroupIds |-> <<>>]

ResolveNext == RMain \/ RRepos

SpecResolve == ResolveInit /\ [][ResolveNext]_vars

\* With the services answering as the tables of the runs do, the call of the
\* repository-permissions script returns what getIdentity returns.
ResolveAgrees ==
    \A d \in Descriptors : ResolveRepos(d, TableServices(d)).identity = getIdentity(d)

\* The positions of the trace at which the directory is queried for the one
\* descriptor, and those at which the bulk list is consulted.
ByDescriptorQueries ==
    {i \in 1..Len(resTrace) : resTrace[i] \in {"GET identities?descriptors",
                                               "GET graph/descriptors", "GET graph/subjects"}}
BulkConsultations == {i \in 1..Len(resTrace) : resTrace[i] = "bulk"}

\* C19: a call tries the embedded-name parse first, and consults the bulk
\* identity list only after a query by descriptor has been made (and failed).
C19_BulkListAfterQuery ==
    resPc = "returned" =>
        /\ resTrace[1] = "parse"
        /\ \A i \in BulkConsultations : \E j \in ByDescriptorQueries : j < i

\* What both scripts keep of the order: the parse comes first and is the only
\* step when it succeeds; a query by descriptor is made when nothing before
\* it succeeded, and nothing is tried after a success.
C19_ParseFirstThenDirectory ==
    resPc = "returned" =>
        /\ resTrace[1] = "parse"
        /\ (resIdentity # Null /\ Len(resTrace) > 1) => resTrace[Len(resTrace)] \in Requests \cup {"bulk"}
        /\ (resIdentity = Null) => ByDescriptorQueries # {}

\* The principal name a claims-style descriptor embeds.
EmbeddedName == (AliceD :> "alice@example.com" @@ BobD :> "bob@example.com")

\* C20: a call with a claims-style descriptor that embeds a principal name
\* returns a user identity whose display name is that name, and issues no
\* request.
C20_EmbeddedNameWithoutRequest ==
    (resPc = "returned" /\ resDescriptor \in DOMAIN EmbeddedName) =>
        /\ resIdentity # Null
        /\ resIdentity.displayName = EmbeddedName[resDescriptor]
        /\ resIdentity.subjectKind = "user"
        /\ ~resIdentity.isContainer
        /\ \A i \in 1..Len(resTrace) : resTrace[i] \notin Requests

C20_Witness ==
    /\ resPc = "returned"
    /\ resScript = "main"
    /\ resDescriptor = AliceD
    /\ resServices.query = "found"
    /\ resIdentity # Null
    /\ resIdentity.displayName = "alice@example.com"
    /\ resTrace = <<"parse">>


-----------------------------------------------------------------------------
(* Lookups and expansions of a run.                                         *)

\* C18: within one run no descriptor is looked up in the directory more than
\* once and no group is expanded more than once.
C18_LookedUpAndExpandedOnce ==
    /\ \A d \in DOMAIN lookups : lookups[d] <= 1
    /\ \A g \in DOMAIN expansions : expansions[g] <= 1

\* What holds instead: a descriptor that embeds its name is never looked up
\* in the directory.
C18_EmbeddedNamesNeverLookedUp ==
    \A d \in DOMAIN EmbeddedName : lookups[d] = 0


-----------------------------------------------------------------------------
(* The branch-policy permissions report of main.js.                         *)

\* The bit permissions_bits gives a permission name.
MainBit(permissionName) ==
    (CHOOSE e \in SeqToSet(permissions_bits) : e[1] = permissionName)[2]

\* A step of a pass of main.js that handles an entry, and the entry.
MainEntryHandled ==
    /\ script = "main"
    /\ pc \in {"repoPass", "projectPass"}
    /\ pc' = pc
MainEntryNow ==
    (IF pc = "repoPass" THEN repoAcls ELSE projectAcls)[aclIdx].acesDictionary[aceIdx]

\* The rows a step appends to `permissions`.
NewRows == {permissions'[i] : i \in (Len(permissions) + 1)..Len(permissions')}

\* C12: every row a pass writes for an entry is for a permission that the
\* entry's mask pair decides as Allow under the deny-over-allow rule.
C12_Step ==
    MainEntryHandled =>
        \A r \in NewRows : RuleDecision(MainEntryNow[2], MainBit(r.permission)) = "Allow"
C12_OnlyAllowDecisions == [][C12_Step]_vars

\* What the passes of main.js do keep: the bit of every row written for an
\* entry is set in the entry's allow mask.
C12_AllowBitStep ==
    MainEntryHandled =>
        \A r \in NewRows : BitAnd(MainEntryNow[2].allow, MainBit(r.permission)) # 0
C12_OnlyAllowBits == [][C12_AllowBitStep]_vars

\* The rows of `permissions` by the scope they come from: the repository-level
\* pass wrote the first repoLevelRows, the project-level pass and the
\* administrator groups the rest.
FromRepositoryScope == {permissions[i] : i \in 1..repoLevelRows}
FromProjectScope == {permissions[i] : i \in (repoLevelRows + 1)..Len(permissions)}

\* C14: the source text of a row that comes from the project scope is the
\* source text of no row that comes from the repository scope.
C14_ProjectScopeAnnotated ==
    script \in {"main", "node"} =>
        \A p \in FromProjectScope, r \in FromRepositoryScope :
            p.permissionSource # r.permissionSource

-----------------------------------------------------------------------------
(* The seen-set of addPermission.                                           *)

\* The pair addPermission closes over, as it stands.
Emitted == [permissions |-> permissions, processedIdentities |-> processedIdentities]

\* Identities, decisions and sources a later call may come with.
LaterIdentities ==
    {[descriptor |-> AliceD, displayName |-> "someone else", mailAddress |-> "",
      subjectKind |-> "user"],
     [descriptor |-> GroupGD, displayName |-> "", mailAddress |-> "m@example.com",
      subjectKind |-> "group"]}
LaterSources == {"Direct User Assignment", "Member of Group G (inherited)"}

\* A call of addPermission with a key of the seen set returns the pair as it
\* is.
C15_SeenKeyFrame ==
    script = "node" =>
        \A key \in processedIdentities, identity \in LaterIdentities,
           allowDeny \in {"Allow", "Deny"}, source \in LaterSources, direct \in BOOLEAN :
            addPermission(Emitted, key[2], key[1], identity, key[3], allowDeny, source,
                          direct) = Emitted

\* No step of the script changes or removes a row written before it, and no
\* step within a repository takes a key out of the seen set.
C15_Step ==
    script = "node" =>
        /\ Len(Rows) <= Len(Rows')
        /\ \A i \in 1..Len(Rows) : Rows'[i] = Rows[i]
        /\ pc \notin {"loop", "return"} => processedIdentities \subseteq processedIdentities'

\* C15: once a record is emitted for a key no later step changes or removes
\* it, and a later addPermission call with a key of the seen set leaves the
\* record list and the seen set unchanged.
C15_FirstEmissionStays == [][C15_Step]_vars /\ []C15_SeenKeyFrame

\* The project-level pass has gone through an entry that the repository-level
\* pass had written rows for, and has added nothing.
C15_Witness ==
    /\ script = "node"
    /\ pc = "projectPass"
    /\ aclIdx > Len(projectAcls)
    /\ repoLevelRows > 0
    /\ Len(permissions) = repoLevelRows
    /\ \E p \in EntryPositions(repoAcls), q \in EntryPositions(projectAcls) :
          /\ EntryAt(repoAcls, p) = EntryAt(projectAcls, q)
          /\ EntryAt(projectAcls, q)[2].allow = 6

\* The same for addPermission of main.js.
C15_SeenKeyFrameMain ==
    script = "main" =>
        \A key \in processedIdentities, identity \in LaterIdentities,
           source \in LaterSources, direct \in BOOLEAN :
            addPermissionMain(Emitted, key[2], key[1], identity, key[3], source,
                              direct) = Emitted

-----------------------------------------------------------------------------
(* The order of the entries of a scope.                                     *)

\* The entries of a response in the order the two loops take them.
RECURSIVE Flatten(_)
Flatten(acls) ==
    IF acls = <<>> THEN <<>>
    ELSE (IF "acesDictionary" \in DOMAIN Head(acls) THEN Head(acls).acesDictionary ELSE <<>>)
         \o Flatten(Tail(acls))

Reverse(list) == [i \in 1..Len(list) |-> list[Len(list) + 1 - i]]

\* part_003 459-525: a whole pass over entries, from the pair st.
RECURSIVE RunPass(_, _, _, _, _, _)
RunPass(st, table, repositoryName, entries, level, i) ==
    IF i > Len(entries) THEN st
    ELSE RunPass(processEntry(st, table, repositoryName, entries[i][1],
                              entries[i][2].allow, entries[i][2].deny, level, 1),
                 table, repositoryName, entries, level, i + 1)

\* The repository-level pass of the repository-permissions script is through.
RepositoryPassDone == script = "node" /\ pc = "repoPass" /\ aclIdx > Len(repoAcls)

\* The rows the pass writes when it takes the entries as listed, and when it
\* takes them in the opposite order.
RowsAsListed ==
    RunPass([permissions |-> <<>>, processedIdentities |-> {}], groupMembers, repo.name,
            Flatten(repoAcls), RepositoryLevel, 1).permissions
RowsReversed ==
    RunPass([permissions |-> <<>>, processedIdentities |-> {}], groupMembers, repo.name,
            Reverse(Flatten(repoAcls)), RepositoryLevel, 1).permissions

\* C16: the set of rows of a scope does not depend on the order in which its
\* entries are taken.
C16_OrderOfEntriesIrrelevant ==
    RepositoryPassDone =>
        /\ permissions = RowsAsListed
        /\ SeqToSet(RowsReversed) = SeqToSet(permissions)

\* What does not depend on the order: which (identity, permission) pairs get
\* a row.
RowKeys(rows) == {<<rows[i].descriptor, rows[i].permission>> : i \in 1..Len(rows)}
C16_OrderKeepsKeys ==
    RepositoryPassDone =>
        /\ permissions = RowsAsListed
        /\ RowKeys(RowsReversed) = RowKeys(permissions)

-----------------------------------------------------------------------------
(* Group members and the key of the group.                                  *)

\* C17: a pass writes rows for the members of an entry's group, for a
\* permission, only when the group's own key for that permission was not in
\* the seen set before the entry was handled.
C17_Step ==
    MainEntryHandled =>
        \A r \in NewRows :
            r.descriptor # MainEntryNow[1] =>
                Key(MainEntryNow[1], repo.name, r.permission) \notin processedIdentities
C17_MembersOnlyForNewGroupKey == [][C17_Step]_vars

\* The same for the expansion itself: a pass calls expandGroupMembers for an
\* entry's group no more often than the entry has permissions whose group
\* key is new.
NewGroupKeys ==
    {k \in 1..Len(permissions_bits) :
        /\ BitAnd(MainEntryNow[2].allow, permissions_bits[k][2]) # 0
        /\ Key(MainEntryNow[1], repo.name, permissions_bits[k][1]) \notin processedIdentities}
C17_ExpansionStep ==
    MainEntryHandled =>
        \A g \in DOMAIN expansions :
            expansions'[g] - expansions[g] <= Cardinality(NewGroupKeys)
C17_ExpandedOnlyForNewGroupKey == [][C17_ExpansionStep]_vars

-----------------------------------------------------------------------------
(* Groups inside groups, in the rows of the repository-permissions script   *)
(* (Spec).                                                                  *)

\* The descriptors of the groups nested, at any depth, in the group an entry
\* names.
NestedGroupDescriptors(d) ==
    LET identity == getIdentity(d)
    IN  IF identity = Null THEN {}
        ELSE IF ~identity.isContainer THEN {}
        ELSE {IdentityTable[h].descriptor :
                h \in {h \in GroupIds \ {identity.id} :
                         <<identity.id, h>> \in Closure(GroupEdges, Cardinality(GroupIds))}}

\* The entries of both scopes.
ScopeEntries ==
    {EntryAt(repoAcls, p) : p \in EntryPositions(repoAcls)}
      \cup {EntryAt(projectAcls, p) : p \in EntryPositions(projectAcls)}

\* C22: when an entry names a group and decides a permission, the report
\* holds a row of that permission for every group nested in it, next to the
\* rows of the group itself and of the users.
C22_NestedGroupEmitted ==
    (script = "node" /\ WrittenCleanly) =>
        \A e \in ScopeEntries :
            \A h \in NestedGroupDescriptors(e[1]) :
                \A k \in DOMAIN permissionsBits :
                    InlineDecision(e[2].allow, e[2].deny, permissionsBits[k][2]) # "Not Set"
                        => RowsFor(repositories[1].name, h, permissionsBits[k][1]) # {}

\* What does hold: a group has rows only when an entry of one of the two
\* scopes names it.
C22_GroupRowsOnlyByOwnEntry ==
    (script = "node" /\ WrittenCleanly) =>
        \A i \in DOMAIN allPermissions :
            allPermissions[i].descriptor \in {GroupGD, GroupHD}
                => \E e \in ScopeEntries : e[1] = allPermissions[i].descriptor

-----------------------------------------------------------------------------
(* The direct-assignment mark of the rows of the repository-permissions     *)
(* script (Spec).                                                           *)

\* A step of a pass of the Node script that handles an entry, and the entry.
NodeEntryHandled ==
    /\ script = "node"
    /\ pc \in {"repoPass", "projectPass"}
    /\ pc' = pc
NodeEntryNow ==
    (IF pc = "repoPass" THEN repoAcls ELSE projectAcls)[aclIdx].acesDictionary[aceIdx]

\* C23: a row is marked as a direct assignment exactly when it is written
\* for the entry's own identity by the repository-level pass; every row the
\* project-level pass writes, and every row written for a member of an
\* expanded group, is marked not direct.
C23_Step ==
    NodeEntryHandled =>
        \A r \in NewRows :
            (r.isDirectAssignment = "Yes")
                <=> (pc = "repoPass" /\ r.descriptor = NodeEntryNow[1])
C23_DirectOnlyOwnIdentityAtRepository ==
    /\ [][C23_Step]_vars
    /\ [](script = "node" =>
            \A i \in DOMAIN permissions : permissions[i].isDirectAssignment \in {"Yes", "No"})

\* Group G and its member alice have rows from the repository-level pass,
\* the group's marked direct and alice's not, and the project-level pass
\* has written a row, marked not direct.
C23_Witness ==
    /\ script = "node"
    /\ WrittenCleanly
    /\ \E i, j, k \in DOMAIN allPermissions :
          /\ allPermissions[i].descriptor = GroupGD
          /\ allPermissions[i].permissionSource = "Direct Group Assignment"
          /\ allPermissions[i].isDirectAssignment = "Yes"
          /\ allPermissions[j].descriptor = AliceD
          /\ allPermissions[j].permissionSource = "Member of Group G"
          /\ allPermissions[j].isDirectAssignment = "No"
          /\ allPermissions[k].permissionSource
               \in {"Project-level Group Assignment (inherited)",
                    "Project-level User Assignment (inherited)",
                    "Project-level (unresolved, inherited)"}
          /\ allPermissions[k].isDirectAssignment = "No"

-----------------------------------------------------------------------------
(* The catalogs and the order of the rows of one entry (SpecCatalog).       *)

CatalogInit ==
    /\ CatalogStart
    /\ IdentitiesIdle
    /\ BootIdle
    /\ PoliciesIdle
    /\ ResolveIdle
    /\ DecideIdle
    /\ ExpandIdle
    /\ EngineIdle
    /\ groupMembers = [g \in GroupIds |-> <<>>]

CatalogNext == KNode \/ KMain \/ KPS

SpecCatalog == CatalogInit /\ [][CatalogNext]_vars

\* The catalog of the script that ran, as (name, bit) pairs, and the bit of
\* a row.
CatalogOf(s) ==
    IF s = "node" THEN SeqToSet(permissionsBits)
    ELSE IF s = "main" THEN SeqToSet(permissions_bits)
    ELSE {<<gitPermissions[b], b>> : b \in DOMAIN gitPermissions}
RowName(r) == IF kScript = "ps" THEN r.Permission ELSE r.permission
RowBit(r) == (CHOOSE e \in CatalogOf(kScript) : e[1] = RowName(r))[2]

\* C24: the rows of one entry are written in ascending order of permission
\* bit.
C24_AscendingBitOrder ==
    kPc = "out" =>
        \A i, j \in DOMAIN kRows : i < j => RowBit(kRows[i]) <= RowBit(kRows[j])

\* What does hold in the Node scripts: the rows follow the order in which
\* the catalog object lists its names.
PositionIn(catalog, name) == CHOOSE k \in DOMAIN catalog : catalog[k][1] = name
C24_CatalogListingOrder ==
    (kPc = "out" /\ kScript \in {"node", "main"}) =>
        LET catalog == IF kScript = "node" THEN permissionsBits ELSE permissions_bits
        IN  \A i, j \in DOMAIN kRows :
                i < j => PositionIn(catalog, kRows[i].permission)
                           < PositionIn(catalog, kRows[j].permission)


\* C25: in the catalog of every script no two names have the same bit, and
\* so no two rows of one entry come from the same bit.
C25_InjectiveCatalog ==
    kPc = "out" =>
        /\ \A e, f \in CatalogOf(kScript) : e[2] = f[2] => e[1] = f[1]
        /\ \A i, j \in DOMAIN kRows :
              i # j => RowBit(kRows[i]) # RowBit(kRows[j])

\* What does hold: no name is listed twice in a catalog, and the catalogs of
\* main.js and of the PowerShell script name every bit once.
C25_NamesOnceAndOthersInjective ==
    kPc = "out" =>
        /\ \A e, f \in CatalogOf(kScript) : e[1] = f[1] => e[2] = f[2]
        /\ kScript \in {"main", "ps"} =>
              \A e, f \in CatalogOf(kScript) : e[2] = f[2] => e[1] = f[1]

-----------------------------------------------------------------------------
(* Repositories one after the other, each with its own rows (SpecRun).      *)

\* The place of a repository in the list, by its name.
RepositoryIndex(name) == CHOOSE i \in DOMAIN repositories : repositories[i].name = name

\* The rows are those of the repositories begun so far, in the order of the
\* list, and the rows of the call under way are of its repository.
OneRepositoryAtATime ==
    /\ \A i, j \in DOMAIN Rows :
          i < j => RepositoryIndex(RowRepository(Rows[i]))
                     <= RepositoryIndex(RowRepository(Rows[j]))
    /\ \A i \in DOMAIN Rows : RepositoryIndex(RowRepository(Rows[i])) <= repoIdx
    /\ pc \in {"repoPass", "projectPass", "return"} =>
          \A i \in DOMAIN permissions : RowRepository(permissions[i]) = repo.name
    /\ (script = "node" /\ pc \in {"repoFetch", "repoPass", "projectPass", "return"}) =>
          \A key \in processedIdentities : key[2] = repo.name

\* A step of a pass that handles an entry, and the entry.
RunEntryHandled ==
    /\ pc \in {"repoPass", "projectPass"}
    /\ pc' = pc
RunEntryNow ==
    (IF pc = "repoPass" THEN repoAcls ELSE projectAcls)[aclIdx].acesDictionary[aceIdx]

\* The permissions the script decides for an entry.
DecidedNames(e) ==
    IF script = "node"
    THEN {permissionsBits[k][1] : k \in
            {k \in DOMAIN permissionsBits :
                InlineDecision(e[2].allow, e[2].deny, permissionsBits[k][2]) # "Not Set"}}
    ELSE IF e[1] \notin DOMAIN identityLookup \/ e[2] = Null THEN {}
    ELSE {gitPermissions[b] : b \in
            {b \in DOMAIN gitPermissions :
                ConvertPermissionMask(e[2].allow, e[2].deny, b) # "Not Set"}}

\* What C26 asks of one step: the rows of the other repositories suppress
\* nothing.
C26_Step ==
    \* an entry handled for a repository leaves a row of that repository for
    \* every permission it decides
    /\ RunEntryHandled =>
          \A n \in DecidedNames(RunEntryNow) :
              \E i \in DOMAIN permissions' :
                  /\ RowRepository(permissions'[i]) = repo.name
                  /\ RowDescriptor(permissions'[i]) = RunEntryNow[1]
                  /\ RowPermission(permissions'[i]) = n
    \* the rows of the call are collected: all of them, or in the PowerShell
    \* merge all but those the same repository already has
    /\ repoIdx' # repoIdx =>
          /\ repoIdx' = repoIdx + 1
          /\ \A i \in DOMAIN permissions :
                \E j \in DOMAIN allPermissions' :
                    /\ RowRepository(allPermissions'[j]) = repo.name
                    /\ RowDescriptor(allPermissions'[j]) = RowDescriptor(permissions[i])
                    /\ RowPermission(allPermissions'[j]) = RowPermission(permissions[i])

\* C26: a row of one repository never keeps a row of the same identity and
\* permission of another repository from being written, and a repository is
\* gone through to its end before the next is begun.
C26_IndependentRepositories ==
    /\ [][C26_Step]_vars
    /\ []OneRepositoryAtATime

\* Alice has a row for Read in r1 and, from the project scope of r2, a row
\* for Read in r2.
C26_Witness ==
    /\ script = "ps"
    /\ pc = "written"
    /\ \E i, j \in DOMAIN allPermissions :
          /\ i < j
          /\ allPermissions[i].Repository = "r1"
          /\ allPermissions[j].Repository = "r2"
          /\ allPermissions[i].IdentityDescriptor = AliceD
          /\ allPermissions[j].IdentityDescriptor = AliceD
          /\ allPermissions[i].Permission = "Read"
          /\ allPermissions[j].Permission = "Read"
          /\ allPermissions[j].IdentityDisplayName = "Alice (Inherited)"

-----------------------------------------------------------------------------
(* The two decisions side by side (SpecDecide).                             *)

\* C27: for every allow mask, deny mask and catalog bit the inline decision
\* of the Node script and Convert-PermissionMask of the PowerShell script
\* give the same result, the skipped bit of the one being the Not Set of the
\* other; whichever ran, its result is what the other would have given.
C27_DecisionsAgree ==
    dPc = "out" =>
        /\ dResult = InlineDecision(dAllow, dDeny, dBit)
        /\ dResult = ConvertPermissionMask(dAllow, dDeny, dBit)

\* Convert-PermissionMask has allowed a bit of an allow mask that holds other
\* bits too, the deny mask holding other bits but not this one.
C27_Witness ==
    /\ dPc = "out"
    /\ dScript = "ps"
    /\ BitAnd(dAllow, dBit) = dBit
    /\ dAllow # dBit
    /\ BitAnd(dDeny, dBit) = 0
    /\ dDeny # 0
    /\ dResult = "Allow"

-----------------------------------------------------------------------------
(* The catalogs of the repository-permissions script and of the PowerShell  *)
(* script side by side (SpecCatalog).                                       *)

\* The name the PowerShell catalog gives a permission of the Node catalog.
Renamed(name) ==
    IF name = "Pull request contribute" THEN "Contribute to pull requests" ELSE name

\* The (name, access) pairs each script writes for the entry.
NodePairs ==
    {<<Renamed(r.permission), r.allow>> :
        r \in SeqToSet(processEntry(NoRows, groupMembers, "r1", AliceD, kAllow, kDeny,
                                    RepositoryLevel, 1).permissions)}
PSPairs ==
    {<<r.Permission, r.Access>> :
        r \in SeqToSet(psBitsIn(kOrder, <<>>, "r1", "rid-1", AliceD,
                                identityLookup[AliceD].DisplayName, kAllow, kDeny, 1))}

\* C28: for one entry the repository-permissions script and the PowerShell
\* script write the same (permission name, access) pairs, the pull-request
\* permission taken under its other name, every permission having the same
\* bit in both catalogs.
C28_CatalogsAgree ==
    (kPc = "out" /\ kScript \in {"node", "ps"}) =>
        /\ NodePairs = PSPairs
        /\ \A e \in SeqToSet(permissionsBits) :
              <<Renamed(e[1]), e[2]>> \in CatalogOf("ps")

\* What does hold: every name but Administer has the same bit in both
\* catalogs, and the scripts agree on every entry whose masks hold neither
\* bit 1 nor bit 8192.
C28_AgreeButForAdminister ==
    (kPc = "out" /\ kScript \in {"node", "ps"}) =>
        /\ \A e \in SeqToSet(permissionsBits) :
              e[1] # "Administer" => <<Renamed(e[1]), e[2]>> \in CatalogOf("ps")
        /\ ( /\ BitAnd(kAllow, 1) = 0 /\ BitAnd(kDeny, 1) = 0
             /\ BitAnd(kAllow, 8192) = 0 /\ BitAnd(kDeny, 8192) = 0 )
           => NodePairs = PSPairs

-----------------------------------------------------------------------------
(* The rows of the members of an expanded group (Spec).                     *)

NodeBit(permissionName) ==
    (CHOOSE e \in SeqToSet(permissionsBits) : e[1] = permissionName)[2]

\* C29: a row written for a member of an expanded group has the permission
\* name of a bit the group's entry decides, the Allow or Deny the entry
\* decides for that bit in the scope gone through, and a source text that
\* names the group.
C29_Step ==
    NodeEntryHandled =>
        LET d == NodeEntryNow[1]
            ace == NodeEntryNow[2]
        IN  \A r \in NewRows :
                r.descriptor # d =>
                    /\ r.descriptor \in ExpandedDescriptors(d)
                    /\ r.allow \in {"Allow", "Deny"}
                    /\ r.allow = InlineDecision(ace.allow, ace.deny, NodeBit(r.permission))
                    /\ r.permissionSource
                         = "Member of " \o getIdentity(d).displayName
                             \o (IF pc = "repoPass" THEN "" ELSE " (inherited)")
C29_MemberRowsFollowTheGroup == [][C29_Step]_vars

\* Group G denies Contribute at the repository scope; the report holds the
\* group's row and a row of its member alice, both Deny, alice's naming the
\* group.
C29_Witness ==
    /\ script = "node"
    /\ WrittenCleanly
    /\ \E i, j \in DOMAIN allPermissions :
          /\ allPermissions[i].descriptor = GroupGD
          /\ allPermissions[i].permission = "Contribute"
          /\ allPermissions[i].allow = "Deny"
          /\ allPermissions[i].permissionSource = "Direct Group Assignment"
          /\ allPermissions[j].descriptor = AliceD
          /\ allPermissions[j].permission = "Contribute"
          /\ allPermissions[j].allow = "Deny"
          /\ allPermissions[j].permissionSource = "Member of Group G"

-----------------------------------------------------------------------------
(* The cache of getAllIdentities (SpecIdentities).                          *)

IdentitiesInit ==
    /\ IdentitiesStart
    /\ BootIdle
    /\ PoliciesIdle
    /\ ResolveIdle
    /\ CatalogIdle
    /\ DecideIdle
    /\ ExpandIdle
    /\ EngineIdle
    /\ groupMembers = [g \in GroupIds |-> <<>>]

IdentitiesNext == IMain \/ IGetIdentity

SpecIdentities == IdentitiesInit /\ [][IdentitiesNext]_vars

\* The calls whose request was answered, and those whose request failed.
AnsweredCalls == {i \in DOMAIN bulkCalls : bulkCalls[i].answered}
FailedCalls ==
    {i \in DOMAIN bulkCalls : bulkCalls[i].requested /\ ~bulkCalls[i].answered}

\* C30: at most one request for the list is answered in a process; every
\* call after it returns the list it returned, without a request; a call
\* whose request fails returns the empty list and leaves the cache unset, so
\* that the next call requests the list again.
C30_FetchedOnceAndRetriedOnFailure ==
    /\ Cardinality(AnsweredCalls) <= 1
    /\ \A i \in AnsweredCalls :
          \A j \in DOMAIN bulkCalls :
              j > i => /\ ~bulkCalls[j].requested
                       /\ bulkCalls[j].returned = bulkCalls[i].returned
    /\ \A i \in FailedCalls :
          /\ bulkCalls[i].returned = <<>>
          /\ i + 1 \in DOMAIN bulkCalls => bulkCalls[i + 1].requested
    /\ AnsweredCalls = {} => allIdentitiesCache = Null
    /\ \A i \in AnsweredCalls :
          allIdentitiesCache = [isNull |-> FALSE, value |-> bulkCalls[i].returned]

\* main's request failed, the request of the next call was answered with an
\* empty list, and the call after that was served from the cache.
C30_Witness ==
    /\ Len(bulkCalls) >= 3
    /\ 1 \in FailedCalls
    /\ 2 \in AnsweredCalls
    /\ bulkCalls[2].returned = <<>>
    /\ ~bulkCalls[3].requested
    /\ bulkCalls[3].returned = <<>>

=============================================================================
